---- MODULE Spec2Model ----
(***************************************************************************)
(* A model of nenupy/undysputed/dynspec.py: the _Lane decoder (polarimetric *)
(* assembly, channel-halves reorder, Stokes extraction), the Dynspec        *)
(* observation object (lane attachment, configuration setters) and the      *)
(* correction stages (edge flagging, dedispersion, rebinning).              *)
(*                                                                          *)
(* Conventions.  Python's None is the empty tuple and a present value x is  *)
(* <<x>>.  A float is either NaN (the empty tuple) or an exact rational     *)
(* <<n, d>> in lowest terms with d > 0.  Arrays are functions over          *)
(* 0..n-1, indexed like the numpy arrays they stand for.                    *)
(***************************************************************************)
EXTENDS Integers, Sequences, FiniteSets, TLC

VARIABLES
    phase,                      \* "new" | "ready" | "failed": life of the Dynspec object
    lanes,                      \* Dynspec.lanes
    lanefiles,                  \* Dynspec._lanefiles (None until first set)
    edge_channels_to_remove,    \* Dynspec._edge_channels_to_remove
    call,                       \* the last operation and its argument
    raised,                     \* exception raised by the last operation, or "none"
    log,                        \* log records emitted by the last operation
    raw,                        \* content of the lane file being decoded (_Lane spec)
    lane,                       \* the _Lane built from raw
    stokes,                     \* result of the last get_stokes / get call
    stage_in,                   \* input of a correction stage (stage specs)
    stage_out,                  \* output of the stage
    config                      \* the Dynspec's selection and correction attributes

vars == <<phase, lanes, lanefiles, edge_channels_to_remove, call, raised, log,
          raw, lane, stokes, stage_in, stage_out, config>>

----------------------------------------------------------------------------
(* Bounds of the model *)

\* longest list assigned to Dynspec.lanefiles
MaxFiles == 2
\* cap on len(Dynspec.lanes), which only grows
MaxLanes == 3
\* largest number of time blocks, subbands, samples per block and channels
\* per subband (fftlen) of a decoded lane file
MaxTimeBlocks == 2
MaxSubbands == 2
MaxNffte == 2
MaxChannels == 4
\* beam ids are 0 .. MaxBeam
MaxBeam == 1
\* longest polarization request
MaxRequest == 2
\* Largest number of lanes of an Observation that is read with get
MaxGetLanes == 2
\* Largest beam id a caller asks for
MaxBeamId == 4
\* Largest number of subbands of a beam array
MaxBeamSubbands == 4
\* Largest integration factor nfft2int of a header
MaxNfft2int == 2
\* Sizes of the arrays handed to a correction stage
MaxTimes == 3
MaxFreqs == 3
MaxPols == 2
\* Largest dispersion measure, and largest rebin width in axis units
MaxDM == 2
\* Largest number of time samples handed to the gain-jump correction
MaxJumpSamples == 6
MaxRebin == 4

----------------------------------------------------------------------------
(* Python values *)

None == <<>>

Some(x) == <<x>>

MinOfSet(S) == CHOOSE x \in S : \A y \in S : x <= y

Min(a, b) == IF a <= b THEN a ELSE b

Max(a, b) == IF a >= b THEN a ELSE b

Range(n) == 0 .. (n - 1)

----------------------------------------------------------------------------
(* Floats and arrays *)

NaN == <<>>

IsNaN(x) == x = NaN

Abs(n) == IF n < 0 THEN -n ELSE n

RECURSIVE Gcd(_, _)
Gcd(a, b) == IF b = 0 THEN a ELSE Gcd(b, a % b)

\* The rational n/d (d /= 0) in lowest terms
Frac(n, d) ==
    LET g == Gcd(Abs(n), Abs(d))
        s == IF d < 0 THEN -1 ELSE 1
    IN  <<(s * n) \div g, (s * d) \div g>>

Num(n) == <<n, 1>>

\* Sums and differences are taken over the least common denominator
FAdd(x, y) ==
    IF IsNaN(x) \/ IsNaN(y) THEN NaN
    ELSE LET g == Gcd(x[2], y[2])
         IN  Frac(x[1] * (y[2] \div g) + y[1] * (x[2] \div g), x[2] * (y[2] \div g))

FSub(x, y) ==
    IF IsNaN(x) \/ IsNaN(y) THEN NaN
    ELSE LET g == Gcd(x[2], y[2])
         IN  Frac(x[1] * (y[2] \div g) - y[1] * (x[2] \div g), x[2] * (y[2] \div g))

\* Products cancel across the two fractions first
FMul(x, y) ==
    IF IsNaN(x) \/ IsNaN(y) THEN NaN
    ELSE IF x[1] = 0 \/ y[1] = 0 THEN Num(0)
    ELSE LET g1 == Gcd(Abs(x[1]), y[2])
             g2 == Gcd(Abs(y[1]), x[2])
         IN  Frac((x[1] \div g1) * (y[1] \div g2), (x[2] \div g2) * (y[2] \div g1))

\* x < y for two floats that are not NaN
FLess(x, y) == FSub(x, y)[1] < 0

\* x / n for an integer n /= 0
FDivInt(x, n) == IF IsNaN(x) THEN NaN ELSE Frac(x[1], x[2] * n)

\* floor of the rational n/d, d > 0
FloorDiv(n, d) == IF n >= 0 THEN n \div d ELSE -((-n + d - 1) \div d)

\* np.round of a rational: to the nearest integer, halves to the even one
RoundHalfEven(x) ==
    LET fl == FloorDiv(x[1], x[2])
        twice == 2 * (x[1] - fl * x[2])      \* 2 * fractional part * x[2]
    IN  IF twice < x[2] THEN fl
        ELSE IF twice > x[2] THEN fl + 1
        ELSE IF fl % 2 = 0 THEN fl ELSE fl + 1

RECURSIVE FSum(_)
FSum(xs) == IF xs = <<>> THEN Num(0) ELSE FAdd(xs[1], FSum(Tail(xs)))

\* np.nanmean of a sequence of floats: the mean of those that are not NaN,
\* NaN when there is none
NanMean(xs) ==
    LET kept == SelectSeq(xs, LAMBDA x : ~IsNaN(x))
    IN  IF kept = <<>> THEN NaN ELSE FDivInt(FSum(kept), Len(kept))

\* A 3-d array (time, frequency, polarization): [shape, v], v over index triples
Arr3(T, F, P, Cell(_, _, _)) ==
    [shape |-> <<T, F, P>>,
     v     |-> [i \in Range(T) \X Range(F) \X Range(P) |-> Cell(i[1], i[2], i[3])]]

----------------------------------------------------------------------------
(* numpy arrays of any rank: [shape, flat], the elements in C order.  An     *)
(* element may itself be a small fixed block (the trailing axes of size 2   *)
(* of the raw and eJones arrays), which every operation below carries along.*)

RECURSIVE Prod(_)
Prod(s) == IF s = <<>> THEN 1 ELSE s[1] * Prod(Tail(s))

\* Offset of the index tuple idx in an array of this shape
RECURSIVE Ravel(_, _)
Ravel(idx, shape) ==
    IF idx = <<>> THEN 0
    ELSE idx[1] * Prod(Tail(shape)) + Ravel(Tail(idx), Tail(shape))

\* The index tuple at offset k
RECURSIVE Unravel(_, _)
Unravel(k, shape) ==
    IF shape = <<>> THEN <<>>
    ELSE <<k \div Prod(Tail(shape))>> \o Unravel(k % Prod(Tail(shape)), Tail(shape))

At(a, idx) == a.flat[Ravel(idx, a.shape) + 1]

NdFrom(shape, Cell(_)) ==
    [shape |-> shape,
     flat  |-> [k \in 1 .. Prod(shape) |-> Cell(Unravel(k - 1, shape))]]

SwapItems(s, i, j) ==
    [k \in DOMAIN s |-> IF k = i THEN s[j] ELSE IF k = j THEN s[i] ELSE s[k]]

\* np.swapaxes(a, i, j)
swapaxes(a, i, j) ==
    LET Cell(idx) == At(a, SwapItems(idx, i + 1, j + 1))
    IN  NdFrom(SwapItems(a.shape, i + 1, j + 1), Cell)

\* a.reshape(shape), for a shape of the same size
reshape(a, shape) == [shape |-> shape, flat |-> a.flat]

\* a[..., ::-1, ...] on axis ax
ReverseAxis(a, ax) ==
    LET Cell(idx) == At(a, [idx EXCEPT ![ax + 1] = a.shape[ax + 1] - 1 - idx[ax + 1]])
    IN  NdFrom(a.shape, Cell)

\* da.stack(xs, axis=-1) seen at one sample: the new last axis selects among xs
StackLast(xs) == [k \in Range(Len(xs)) |-> xs[k + 1]]

\* da.stack(rows, axis=-1) of vectors: result[c][k] = rows[k][c]
StackLastVec(rows) ==
    [c \in DOMAIN rows[1] |-> [k \in Range(Len(rows)) |-> rows[k + 1][c]]]

\* da.concatenate([a, b], axis=-1) seen at one sample
ConcatLast(a, b) ==
    LET na == Cardinality(DOMAIN a)
        nb == Cardinality(DOMAIN b)
    IN  [k \in Range(na + nb) |-> IF k < na THEN a[k] ELSE b[k - na]]

Complex(re, im) == [re |-> re, im |-> im]

----------------------------------------------------------------------------
(* Python slicing *)

\* The first index of the slice a[i:] of an axis of length n
SliceFrom(i, n) == IF i < 0 THEN Max(n + i, 0) ELSE Min(i, n)

\* The end (exclusive) of the slice a[:i] of an axis of length n
SliceTo(i, n) == IF i < 0 THEN Max(n + i, 0) ELSE Min(i, n)

----------------------------------------------------------------------------
(* The file system.  A path is the sequence of its characters, the          *)
(* observation name and the extension word kept as single tokens; paths    *)
(* are absolute, so abspath leaves them as they are.                        *)

Digits == {"0", "1", "2", "3", "4", "5", "6", "7", "8", "9"}

DigitValue(c) ==
    CASE c = "0" -> 0 [] c = "1" -> 1 [] c = "2" -> 2 [] c = "3" -> 3
      [] c = "4" -> 4 [] c = "5" -> 5 [] c = "6" -> 6 [] c = "7" -> 7
      [] c = "8" -> 8 [] c = "9" -> 9

PathA0 == <<"/", "A", "_", "0", ".", "spectra">>
PathA1 == <<"/", "A", "_", "1", ".", "spectra">>
PathB0 == <<"/", "B", "_", "0", ".", "spectra">>
PathB1 == <<"/", "B", "_", "1", ".", "spectra">>
PathAx == <<"/", "A", "_", "x", ".", "spectra">>
PathA2 == <<"/", "A", "_", "2", ".", "spectra">>
PathA3 == <<"/", "A", "_", "3", "x", "spectra">>
PathBx == <<"/", "B", "_", "x", ".", "spectra">>

Paths == {PathA0, PathA1, PathB0, PathB1, PathAx, PathA2, PathA3, PathBx}

\* The files on disk with the fftlen field of their header and the beam id
\* of each subband of their first block; PathA2 and PathBx are absent.
Disk ==
    (PathA0 :> [fftlen |-> 4, beam |-> <<1, 2>>]) @@
    (PathA1 :> [fftlen |-> 4, beam |-> <<2, 3>>]) @@
    (PathB0 :> [fftlen |-> 2, beam |-> <<0>>]) @@
    (PathB1 :> [fftlen |-> 3, beam |-> <<0>>]) @@
    (PathAx :> [fftlen |-> 4, beam |-> <<0>>]) @@
    (PathA3 :> [fftlen |-> 4, beam |-> <<3>>])

isfile(p) == p \in DOMAIN Disk

abspath(p) == IF Len(p) > 0 /\ p[1] = "/" THEN p ELSE <<"/">> \o p

\* re.compile(r"_(?P<index>\d).spectra$").findall(l): the unescaped dot
\* matches any one character.
PatternFindall(l) ==
    LET n == Len(l) IN
    IF n >= 4 /\ l[n] = "spectra" /\ l[n - 2] \in Digits /\ l[n - 3] = "_"
    THEN <<l[n - 2]>>
    ELSE <<>>

\* The observation a file belongs to: its name up to the last underscore.
LastUnderscore(l) ==
    LET S == {i \in 1 .. Len(l) : l[i] = "_"} IN
    IF S = {} THEN 0 ELSE CHOOSE i \in S : \A j \in S : j <= i

ObsPrefix(l) == SubSeq(l, 1, LastUnderscore(l) - 1)

----------------------------------------------------------------------------
(* _Lane construction, as far as the Dynspec object depends on it *)

\* _to2d refuses an odd number of channels
To2dRaises(n_channels) == n_channels % 2 /= 0

\* _Lane.lanefile setter: the exception it raises, or "none"
LanefileSetterRaises(l) ==
    IF ~isfile(abspath(l)) THEN "FileNotFoundError"
    ELSE IF Len(PatternFindall(abspath(l))) /= 1 THEN "ValueError"
    ELSE "none"

\* np.unique(beam_array)
UniqueBeams(beam_array) == {beam_array[s] : s \in DOMAIN beam_array}

\* _Lane._sort_beam_edges(beam_array, n_channels): beam id -> <<start, stop>>
SortBeamEdges(beam_array, n_channels) ==
    [b \in UniqueBeams(beam_array) |->
        LET b_idx == {s \in DOMAIN beam_array : beam_array[s] = b}
            first == CHOOSE s \in b_idx : \A r \in b_idx : s <= r
            last  == CHOOSE s \in b_idx : \A r \in b_idx : r <= s
        IN  <<first * n_channels, (last + 1) * n_channels>>]

\* _Lane(lanefile): [err, lane].  __init__ runs the lanefile setter, then
\* resets the attributes (lane_index among them) to None, then _load.
NewLane(l) ==
    LET e1 == LanefileSetterRaises(l)
        n_channels == Disk[abspath(l)].fftlen
    IN  IF e1 /= "none" THEN [err |-> e1, lane |-> None]
        ELSE IF To2dRaises(n_channels) THEN [err |-> "ValueError", lane |-> None]
        ELSE [err  |-> "none",
              lane |-> Some([lanefile   |-> abspath(l),
                             lane_index |-> None,
                             n_channels |-> n_channels,
                             beam_idx   |-> SortBeamEdges(
                                                [sb \in Range(Len(Disk[abspath(l)].beam)) |->
                                                    Disk[abspath(l)].beam[sb + 1]],
                                                n_channels)])]

----------------------------------------------------------------------------
(* _Lane: polarimetric assembly, channel-halves reorder, beam map, Stokes *)

\* _Lane._to_ejones(fft0, fft1), sample by sample.  Each stack puts its
\* operands on a new LAST axis, so the element [i][j] of a sample (the
\* axes -2 and -1) is rows[j][i].
ToEjones(fft0, fft1) ==
    LET Cell(idx) ==
            LET f0 == At(fft0, idx)
                f1 == At(fft1, idx)
                row1 == StackLast(<<Complex(f0[0], 0), Complex(f1[0], -f1[1])>>)
                row2 == StackLast(<<Complex(f1[0], f1[1]), Complex(f0[1], 0)>>)
            IN  StackLastVec(<<row1, row2>>)
    IN  NdFrom(fft0.shape, Cell) @@ [tail |-> <<2, 2>>]

\* _to2d without the inversion of the halves
To2dNoInversion(data, nffte, n_channels) ==
    LET ntb == data.shape[1]
        nfb == data.shape[2]
    IN  IF To2dRaises(n_channels) THEN [err |-> "ValueError", data |-> None]
        ELSE [err  |-> "none",
              data |-> Some(reshape(swapaxes(data, 1, 2),
                                    <<ntb * nffte, nfb * n_channels>>))]

\* _Lane._to2d(data, nffte, n_channels): [err, data].  data carries the
\* leading four axes in its shape and the trailing ones in data.tail.
To2d(data, nffte, n_channels) ==
    LET ntb == data.shape[1]
        nfb == data.shape[2]
        n_times == ntb * nffte
        n_freqs == nfb * n_channels
        temp_shape == <<n_times, n_freqs \div n_channels, 2, n_channels \div 2>>
        final_shape == <<n_times, n_freqs>>
        ndim == Len(data.shape) + Len(data.tail)
    IN  IF To2dRaises(n_channels) THEN [err |-> "ValueError", data |-> None]
        ELSE IF ndim \notin {4, 6} THEN [err |-> "IndexError", data |-> None]
        ELSE IF Prod(temp_shape) /= Prod(data.shape)
        THEN [err |-> "ValueError", data |-> None]
        ELSE [err  |-> "none",
              data |-> Some(reshape(
                           ReverseAxis(reshape(swapaxes(data, 1, 2), temp_shape), 2),
                           final_shape))]

\* Bytes of HEADER_STRUCT: three uint64 and six int32
HeaderItemsize == 48

\* Bytes of one block: the header and n_subbands beamlets of three int32 and
\* two float32 arrays of shape (nffte, n_channels, 2)
Itemsize(nffte, n_channels, n_subbands) ==
    HeaderItemsize + n_subbands * (3 * 4 + 2 * (nffte * n_channels * 2 * 4))

\* The first n blocks of a raw array
Blocks(a, n) ==
    LET Cell(idx) == At(a, idx)
    IN  NdFrom(<<n>> \o Tail(a.shape), Cell)

\* _Lane._decode_data: the whole blocks the file holds, trailing bytes that
\* do not make a block left out
DecodeData(file, nffte, n_channels, n_subbands) ==
    LET n_blocks == file.size \div Itemsize(nffte, n_channels, n_subbands)
    IN  [n_blocks |-> n_blocks,
         fft0     |-> Blocks(file.fft0, n_blocks),
         fft1     |-> Blocks(file.fft1, n_blocks)]

\* data["channel"][0, :] and data["beam"][0] without a first block
FirstBlockRowUnchecked(n_timeblocks) == "none"

\* data["channel"][0, :] and data["beam"][0]: the exception they raise on an
\* array of n_timeblocks blocks, or "none"
FirstBlockRow(n_timeblocks) == IF n_timeblocks = 0 THEN "IndexError" ELSE "none"

\* self.dt = 5.12e-6*n_channels*nfft2int
LaneDt(n_channels, nfft2int) == Frac(512 * n_channels * nfft2int, 100000000)

\* A channel width that does not depend on the number of channels
LaneDfOfSubband(n_channels) == Frac(100000000, 512)

\* self.df = 1.0/5.12e-6/n_channels
LaneDf(n_channels) == Frac(100000000, 512 * n_channels)

\* _Lane._compute_times with one entry too many
ComputeTimesOneMore(unix_start, dt, n_times, block_seq_number) ==
    [i \in Range(n_times + 1) |->
        FAdd(FMul(Num(i), dt), FAdd(Num(unix_start), Frac(2 * block_seq_number, 390625)))]

\* _Lane._compute_times: arange(n_times)*dt + unix_start + block_seq_number/195312.5
ComputeTimes(unix_start, dt, n_times, block_seq_number) ==
    [i \in Range(n_times) |->
        FAdd(FMul(Num(i), dt), FAdd(Num(unix_start), Frac(2 * block_seq_number, 390625)))]

\* _Lane._compute_frequencies: channel c of subband s lies at
\* (c - n_channels/2)*df + subband_channels[s]*df*n_channels
ComputeFrequencies(n_channels, n_subbands, df, subband_channels) ==
    LET subband_width == FMul(df, Num(n_channels))
    IN  [k \in Range(n_subbands * n_channels) |->
            LET s == k \div n_channels
                c == k % n_channels
            IN  FAdd(FMul(Frac(2 * c - n_channels, 2), df),
                     FMul(Num(subband_channels[s]), subband_width))]

\* np.min, np.max of a 1-d array
MinOf(a) == CHOOSE x \in {a[i] : i \in DOMAIN a} : \A i \in DOMAIN a : x <= a[i]

MaxOf(a) == CHOOSE x \in {a[i] : i \in DOMAIN a} : \A i \in DOMAIN a : a[i] <= x

\* str.upper() on the letters of a polarization request
Upper(c) ==
    CASE c = "i" -> "I" [] c = "q" -> "Q" [] c = "u" -> "U" [] c = "v" -> "V"
      [] c = "l" -> "L" [] c = "x" -> "X" [] c = "y" -> "Y"
      [] OTHER -> c

StokesLetters == {"I", "Q", "U", "V"}

\* StokesValue with U and V taken from the wrong parts of the cross term
StokesValueSwappedUV(e, stokes_i) ==
    CASE Upper(stokes_i) = "I" -> e[0][0].re + e[1][1].re
      [] Upper(stokes_i) = "Q" -> e[0][0].re - e[1][1].re
      [] Upper(stokes_i) = "U" -> e[0][1].im * 2
      [] Upper(stokes_i) = "V" -> e[0][1].re * 2

\* The plane get_stokes computes for one known letter, at one sample e
StokesValue(e, stokes_i) ==
    CASE Upper(stokes_i) = "I" -> e[0][0].re + e[1][1].re
      [] Upper(stokes_i) = "Q" -> e[0][0].re - e[1][1].re
      [] Upper(stokes_i) = "U" -> e[0][1].re * 2
      [] Upper(stokes_i) = "V" -> e[0][1].im * 2

\* The loop of get_stokes that skips a letter it does not know
RECURSIVE StokesLoopSkipping(_, _, _, _)
StokesLoopSkipping(data, req, i, acc) ==
    IF i > Len(req) THEN [err |-> "none", data |-> acc]
    ELSE IF Upper(req[i]) \notin StokesLetters
    THEN StokesLoopSkipping(data, req, i + 1, acc)
    ELSE LET Plane(idx) == StokesValue(At(data, idx), req[i])
             First(idx) == StackLast(<<Plane(idx)>>)
             More(idx)  == ConcatLast(At(acc[1], idx), First(idx))
         IN  StokesLoopSkipping(data, req, i + 1,
                 IF acc = None THEN Some(NdFrom(data.shape, First))
                 ELSE Some(NdFrom(data.shape, More)))

\* The loop of _Lane.get_stokes from letter i on, acc being the planes
\* stacked so far (None before the first): [err, data]
RECURSIVE StokesLoop(_, _, _, _)
StokesLoop(data, req, i, acc) ==
    IF i > Len(req) THEN [err |-> "none", data |-> acc]
    ELSE IF Upper(req[i]) \notin StokesLetters
    THEN [err |-> "NotImplementedError", data |-> None]
    ELSE LET Plane(idx) == StokesValue(At(data, idx), req[i])
             First(idx) == StackLast(<<Plane(idx)>>)
             More(idx)  == ConcatLast(At(acc[1], idx), First(idx))
         IN  StokesLoop(data, req, i + 1,
                 IF acc = None THEN Some(NdFrom(data.shape, First))
                 ELSE Some(NdFrom(data.shape, More)))

\* _Lane.get_stokes(stokes=req) on the lane's data
GetStokes(data, req) == StokesLoop(data, req, 1, None)

\* _Lane._load on the decoded file content: [err, ...lane attributes]
LoadLane(file) ==
    LET header == file.header
        n_channels == header.fftlen
        nffte == header.nffte
        nfft2int == header.nfft2int
        n_subbands == header.nbchan
        dt == LaneDt(n_channels, nfft2int)
        df == LaneDf(n_channels)
        data == DecodeData(file, nffte, n_channels, n_subbands)
        r == To2d(ToEjones(data.fft0, data.fft1), nffte, n_channels)
        n_timeblocks == data.n_blocks
    IN  IF file.size < HeaderItemsize
        THEN \* np.frombuffer(..., count=1) on a buffer shorter than a header
             [state |-> "failed", err |-> "ValueError"]
        ELSE IF r.err /= "none" THEN [state |-> "failed", err |-> r.err]
        ELSE IF FirstBlockRow(n_timeblocks) /= "none"
        THEN [state |-> "failed", err |-> FirstBlockRow(n_timeblocks)]
        ELSE [state        |-> "loaded",
              err          |-> "none",
              dt           |-> dt,
              df           |-> df,
              n_channels   |-> n_channels,
              data         |-> r.data[1],
              time_unix    |-> ComputeTimes(header.TIMESTAMP, dt, n_timeblocks * nffte,
                                            header.BLOCKSEQNUMBER),
              frequency_hz |-> ComputeFrequencies(n_channels, n_subbands, df, file.channel),
              fmin         |-> FMul(FMul(df, Num(n_channels)),
                                    Frac(2 * MinOf(file.channel) - 1, 2)),
              fmax         |-> FMul(FMul(df, Num(n_channels)),
                                    Frac(2 * MaxOf(file.channel) + 1, 2)),
              beam_idx     |-> SortBeamEdges(file.beam, n_channels)]

----------------------------------------------------------------------------
(* Dynspec *)

\* The loop of the lanefiles setter from file i on: [lanes, err]
RECURSIVE AttachFrom(_, _, _)
AttachFrom(ls, l, i) ==
    IF i > Len(l) THEN [lanes |-> ls, err |-> "none"]
    ELSE IF ~isfile(abspath(l[i])) THEN [lanes |-> ls, err |-> "FileNotFoundError"]
    ELSE LET r == NewLane(abspath(l[i])) IN
         IF r.err /= "none" THEN [lanes |-> ls, err |-> r.err]
         ELSE AttachFrom(Append(ls, r.lane[1]), l, i + 1)

\* Dynspec.lanefiles setter on an object whose lanes are ls.  The argument
\* is [islist, v]: a value that is not a list is wrapped into one.
\* [lanes, lanefiles (Some list, or None when it raised), err]
LanefilesSetter(ls, arg) ==
    LET l  == IF arg.islist THEN arg.v ELSE <<arg.v>>
        al == [i \in 1 .. Len(l) |-> abspath(l[i])]
        r  == AttachFrom(ls, al, 1)
    IN  [lanes     |-> r.lanes,
         lanefiles |-> IF r.err = "none" THEN Some(al) ELSE None,
         err       |-> r.err]

\* Dynspec.beams: the beam ids of all lanes (np.unique sorts them)
Beams(ls) == UNION {DOMAIN ls[i].beam_idx : i \in DOMAIN ls}

\* beam setter that keeps whatever integer it is given
BeamSetterUnchecked(ls, b) ==
    IF ~b.isint THEN [err |-> "TypeError", value |-> 0, warned |-> FALSE]
    ELSE [err |-> "none", value |-> b.v, warned |-> FALSE]

\* Dynspec.beam setter: [err, value, warned].  The argument is [isint, v].
BeamSetter(ls, b) ==
    IF ~b.isint THEN [err |-> "TypeError", value |-> 0, warned |-> FALSE]
    ELSE IF b.v \notin Beams(ls)
    THEN [err |-> "none", value |-> MinOfSet(Beams(ls)), warned |-> TRUE]
    ELSE [err |-> "none", value |-> b.v, warned |-> FALSE]

\* Dynspec.nchan
nchan(ls) == ls[1].n_channels

\* Dynspec.edge_channels_to_remove setter: [value, warned].  The argument is
\* [isint, v]: whether it is a Python int, and its value when it is.
EdgeSetter(ls, n) ==
    LET default_val == 0 IN
    IF ~n.isint THEN [value |-> default_val, warned |-> TRUE]
    ELSE IF n.v * 2 > nchan(ls) THEN [value |-> default_val, warned |-> TRUE]
    ELSE IF n.v < 0 THEN [value |-> default_val, warned |-> TRUE]
    ELSE [value |-> n.v, warned |-> FALSE]

----------------------------------------------------------------------------
(* Edge-channel flagging *)

\* Dynspec._remove_edge_channels with edge_channels_to_remove = n and
\* Dynspec.nchan = nchannels: [err, data]
RemoveEdgeChannels(data, n, nchannels) ==
    LET T == data.shape[1]
        F == data.shape[2]
        P == data.shape[3]
        Flagged(c) == c < SliceTo(n, nchannels) \/ c >= SliceFrom(-n, nchannels)
        Cell(t, f, p) == IF Flagged(f % nchannels) THEN NaN ELSE data.v[<<t, f, p>>]
    IN  IF n > 0
        THEN IF (F \div nchannels) * nchannels /= F
             THEN [err |-> "ValueError", data |-> data]
             ELSE [err |-> "none", data |-> Arr3(T, F, P, Cell)]
        ELSE [err |-> "none", data |-> data]

----------------------------------------------------------------------------
(* Dedispersion *)

\* nenupy.astro.dispersion_delay(frequency, dispersion_measure): proportional
\* to the dispersion measure and to 1/frequency^2 (frequency > 0)
DispersionDelay(frequency, dm) == Frac(16 * dm, frequency * frequency)

\* np.roll(column, shift, 0) of a column of T samples, at sample t
RollIndex(t, shift, T) == (t - shift) % T

\* Dynspec._dedisperse(data, freqs, dt) with dispersion_measure = dm (None
\* or Some value) and freq_range[1] = fref: [err, data]
Dedisperse(data, freqs, dt, dm, fref) ==
    LET T == data.shape[1]
        F == data.shape[2]
        P == data.shape[3]
        delay(i) == FSub(DispersionDelay(freqs[i], dm[1]), DispersionDelay(fref, dm[1]))
        cell_delay(i) == RoundHalfEven(FDivInt(delay(i), dt))
        Cell(t, i, p) ==
            IF t >= SliceFrom(-cell_delay(i), T) THEN NaN
            ELSE data.v[<<RollIndex(t, -cell_delay(i), T), i, p>>]
    IN  IF dm = None THEN [err |-> "none", data |-> data]
        ELSE IF F /= Cardinality(DOMAIN freqs) THEN [err |-> "ValueError", data |-> data]
        ELSE [err |-> "none", data |-> Arr3(T, F, P, Cell)]

----------------------------------------------------------------------------
(* Gain-jump correction *)

\* x / y for two floats, y /= 0
FDiv(x, y) ==
    IF IsNaN(x) \/ IsNaN(y) THEN NaN ELSE FMul(x, Frac(y[2], y[1]))

\* The k-th smallest (k = 1, 2, ...) of a non-empty sequence of floats
KthSmallest(xs, k) ==
    CHOOSE v \in {xs[i] : i \in DOMAIN xs} :
        /\ Cardinality({i \in DOMAIN xs : FLess(xs[i], v)}) < k
        /\ Cardinality({i \in DOMAIN xs : ~FLess(v, xs[i])}) >= k

\* np.nanmedian of a sequence of floats
NanMedian(xs) ==
    LET kept == SelectSeq(xs, LAMBDA x : ~IsNaN(x))
        n == Len(kept)
    IN  IF n = 0 THEN NaN
        ELSE IF n % 2 = 1 THEN KthSmallest(kept, (n + 1) \div 2)
        ELSE FDivInt(FAdd(KthSmallest(kept, n \div 2), KthSmallest(kept, n \div 2 + 1)), 2)

\* np.gradient of a 1-d array of n >= 2 samples: central differences inside,
\* one-sided differences at the two ends
Gradient(x) ==
    LET n == Cardinality(DOMAIN x)
    IN  [t \in Range(n) |->
            IF t = 0 THEN FSub(x[1], x[0])
            ELSE IF t = n - 1 THEN FSub(x[n - 1], x[n - 2])
            ELSE FDivInt(FSub(x[t + 1], x[t - 1]), 2)]

\* np.argmin of a 1-d array: the first index of the minimum
ArgMin(x) ==
    CHOOSE i \in DOMAIN x :
        /\ \A j \in DOMAIN x : ~FLess(x[j], x[i])
        /\ \A j \in DOMAIN x : j < i => FLess(x[i], x[j])

\* ceil of the rational n/d, d > 0
CeilDiv(n, d) == -FloorDiv(-n, d)

sixMin == 360

\* The time profile of polarization p of the selection: the median over
\* the channels of the data divided by their median spectrum
TimeProfile(data, p) ==
    LET T == data.shape[1]
        F == data.shape[2]
        freqProfile == [f \in Range(F) |-> NanMedian([t \in 1 .. T |-> data.v[<<t - 1, f, p>>]])]
    IN  [t \in Range(T) |->
            NanMedian([f \in 1 .. F |-> FDiv(data.v[<<t, f - 1, p>>], freqProfile[f - 1])])]

\* timeProfile[timeProfile > mean + 4*std] = mean, std being the square
\* root of the mean squared deviation
ClipProfile(x) ==
    LET n == Cardinality(DOMAIN x)
        mean == FDivInt(FSum([t \in 1 .. n |-> x[t - 1]]), n)
        dev(t) == FSub(x[t], mean)
        var == FDivInt(FSum([t \in 1 .. n |-> FMul(dev(t - 1), dev(t - 1))]), n)
        Above(t) == /\ FLess(mean, x[t])
                    /\ FLess(FMul(Num(16), var), FMul(dev(t), dev(t)))
    IN  [t \in Range(n) |-> IF Above(t) THEN mean ELSE x[t]]

\* intervalEdges with the first jump taken at jumpIndex itself
IntervalEdgesFromJump(timeProfile, dt) ==
    LET nPointsTotal == Cardinality(DOMAIN timeProfile)
        nIntervals == CeilDiv(nPointsTotal * dt[1], sixMin * dt[2])
        nJumps == nIntervals - 1
        nPointsJump == FloorDiv(sixMin * dt[2], dt[1])
        jumpIndex == ArgMin(Gradient(ClipProfile(timeProfile)))
    IN  <<0>> \o [k \in 1 .. nJumps |-> jumpIndex + (k - 1) * nPointsJump]
            \o <<nPointsTotal - 1>>

\* intervalEdges of _correct_jumps for a time profile of resolution dt
\* seconds (dt <= 360): 0, the jump indices, nPointsTotal - 1
IntervalEdges(timeProfile, dt) ==
    LET nPointsTotal == Cardinality(DOMAIN timeProfile)
        nIntervals == CeilDiv(nPointsTotal * dt[1], sixMin * dt[2])
        nJumps == nIntervals - 1
        nPointsJump == FloorDiv(sixMin * dt[2], dt[1])
        jumpIndex == ArgMin(Gradient(ClipProfile(timeProfile)))
        firstJumpIndex == jumpIndex % nPointsJump
    IN  <<0>> \o [k \in 1 .. nJumps |-> firstJumpIndex + (k - 1) * nPointsJump]
            \o <<nPointsTotal - 1>>

\* The intervals whose fitted curve multiplies jumpsFitted[t]: interval i
\* covers the samples intervalEdges[i] .. intervalEdges[i+1], both included
FitsAt(edges, t) ==
    SelectSeq([i \in 1 .. Len(edges) - 1 |-> i],
              LAMBDA i : edges[i] <= t /\ t <= edges[i + 1])

\* The intervals that hold fewer samples than the model f(t) = a log10(t) + b
\* has parameters
ShortIntervals(edges) ==
    {i \in 1 .. Len(edges) - 1 : edges[i + 1] - edges[i] + 1 < 2}

\* Dynspec._correct_jumps(data, dt) with jump_correction = enabled.  The
\* fitted curves are not computed: a corrected sample is the pair of its
\* value and of the intervals whose curves divide it.  fits tells whether
\* the fitter returns a curve for an interval of a single sample or raises.
\* [err, data, edges (one list per polarization)]
CorrectJumps(data, dt, enabled, fits) ==
    LET T == data.shape[1]
        F == data.shape[2]
        P == data.shape[3]
        edges == [p \in Range(P) |-> IntervalEdges(TimeProfile(data, p), dt)]
        failing == {p \in Range(P) : ShortIntervals(edges[p]) /= {} /\ ~fits}
        Cell(t, f, p) == [value |-> data.v[<<t, f, p>>], fits |-> FitsAt(edges[p], t)]
    IN  IF ~enabled THEN [err |-> "none", data |-> data, edges |-> <<>>]
        ELSE IF T < 2 THEN [err |-> "ValueError", data |-> data, edges |-> <<>>]
        ELSE IF failing /= {}
        THEN [err |-> "TypeError", data |-> data,
              edges |-> [p \in Range(MinOfSet(failing) + 1) |-> edges[p]]]
        ELSE [err |-> "none", data |-> Arr3(T, F, P, Cell), edges |-> edges]

----------------------------------------------------------------------------
(* Rebinning *)

\* The samples lo .. hi-1 of a 1-d array, as a sequence
Window(a, lo, hi) == [k \in 1 .. (hi - lo) |-> a[lo + k - 1]]

\* The time part of Dynspec._rebin for tbins native samples per bin:
\* [err, data, times, log]
RebinTime(data, times, tbins) ==
    LET ntimes_i == data.shape[1]
        nfreqs_i == data.shape[2]
        npols_i  == data.shape[3]
        ntimes   == ntimes_i \div tbins
        tleftover == ntimes_i % ntimes
        stop     == SliceTo(IF tleftover /= 0 THEN -tleftover ELSE ntimes_i, ntimes_i)
        width    == (ntimes_i - tleftover) \div ntimes
        Cell(b, f, p) ==
            NanMean([k \in 1 .. width |-> data.v[<<b * width + k - 1, f, p>>]])
    IN  IF tbins = 0 \/ ntimes = 0
        THEN \* ntimes_i/tbins, or ntimes_i % ntimes, after the first message
             [err |-> "ZeroDivisionError", data |-> data, times |-> times,
              log |-> << <<"Time-averaging", tbins>> >>]
        ELSE IF stop /= ntimes * width
        THEN \* reshape
             [err |-> "ValueError", data |-> data, times |-> times,
              log |-> << <<"Time-averaging", tbins>>, <<"left over", tleftover>> >>]
        ELSE [err   |-> "none",
              data  |-> Arr3(ntimes, nfreqs_i, npols_i, Cell),
              times |-> [b \in Range(ntimes) |->
                            NanMean(Window(times, b * width, (b + 1) * width))],
              log   |-> << <<"Time-averaging", tbins>>, <<"left over", tleftover>>,
                           <<"Data are time-averaged.">> >>]

\* The frequency part of Dynspec._rebin for fbins native channels per bin:
\* [err, data, freqs, log]
RebinFreq(data, freqs, fbins) ==
    LET ntimes_i == data.shape[1]
        nfreqs_i == data.shape[2]
        npols_i  == data.shape[3]
        nfreqs   == nfreqs_i \div fbins
        fleftover == nfreqs_i % nfreqs
        stop     == SliceTo(IF fleftover /= 0 THEN -fleftover ELSE nfreqs_i, nfreqs_i)
        width    == (nfreqs_i - fleftover) \div nfreqs
        Cell(t, b, p) ==
            NanMean([k \in 1 .. width |-> data.v[<<t, b * width + k - 1, p>>]])
    IN  IF fbins = 0 \/ nfreqs = 0
        THEN [err |-> "ZeroDivisionError", data |-> data, freqs |-> freqs,
              log |-> << <<"Frequency-averaging", fbins>> >>]
        ELSE IF stop /= nfreqs * width
        THEN [err |-> "ValueError", data |-> data, freqs |-> freqs,
              log |-> << <<"Frequency-averaging", fbins>>, <<"left over", fleftover>> >>]
        ELSE [err   |-> "none",
              data  |-> Arr3(ntimes_i, nfreqs, npols_i, Cell),
              freqs |-> [b \in Range(nfreqs) |->
                            NanMean(Window(freqs, b * width, (b + 1) * width))],
              log   |-> << <<"Frequency-averaging", fbins>>, <<"left over", fleftover>>,
                           <<"Data are frequency-averaged.">> >>]

\* int(np.floor(rebin/native)) for a positive native step
BinWidth(rebin, native) == FloorDiv(rebin, native)

\* _rebin with the two halves in the other order
RebinFrequencyFirst(data, times, freqs, dt, df, rebin_dt, rebin_df) ==
    LET f == IF rebin_df = None
             THEN [err |-> "none", data |-> data, freqs |-> freqs, log |-> <<>>]
             ELSE RebinFreq(data, freqs, BinWidth(rebin_df[1], df))
        t == IF rebin_dt = None \/ f.err /= "none"
             THEN [err |-> "none", data |-> f.data, times |-> times, log |-> <<>>]
             ELSE RebinTime(f.data, times, BinWidth(rebin_dt[1], dt))
    IN  IF f.err /= "none"
        THEN [err |-> f.err, data |-> data, times |-> times, freqs |-> freqs, log |-> f.log]
        ELSE IF t.err /= "none"
        THEN [err |-> t.err, data |-> data, times |-> times, freqs |-> freqs,
              log |-> f.log \o t.log]
        ELSE [err |-> "none", data |-> t.data, times |-> t.times, freqs |-> f.freqs,
              log |-> f.log \o t.log]

\* Dynspec._rebin(data, times, freqs, dt, df) with the configured rebin_dt
\* and rebin_df (None or Some value): [err, data, times, freqs, log]
Rebin(data, times, freqs, dt, df, rebin_dt, rebin_df) ==
    LET t == IF rebin_dt = None
             THEN [err |-> "none", data |-> data, times |-> times, log |-> <<>>]
             ELSE RebinTime(data, times, BinWidth(rebin_dt[1], dt))
        f == IF rebin_df = None \/ t.err /= "none"
             THEN [err |-> "none", data |-> t.data, freqs |-> freqs, log |-> <<>>]
             ELSE RebinFreq(t.data, freqs, BinWidth(rebin_df[1], df))
    IN  IF t.err /= "none"
        THEN [err |-> t.err, data |-> data, times |-> times, freqs |-> freqs, log |-> t.log]
        ELSE IF f.err /= "none"
        THEN [err |-> f.err, data |-> data, times |-> times, freqs |-> freqs,
              log |-> t.log \o f.log]
        ELSE [err |-> "none", data |-> f.data, times |-> t.times, freqs |-> f.freqs,
              log |-> t.log \o f.log]

----------------------------------------------------------------------------
(* Dynspec.get *)

FAbs(x) == IF x[1] < 0 THEN <<-x[1], x[2]>> ELSE x

\* np.argmin(np.abs(a - target)) on a non-empty 1-d array: the first index
\* of least distance
ArgMinAbs(a, target) ==
    LET d(i) == FAbs(FSub(a[i], target))
    IN  CHOOSE i \in DOMAIN a :
            /\ \A j \in DOMAIN a : ~FLess(d(j), d(i))
            /\ \A j \in DOMAIN a : j < i => FLess(d(i), d(j))

\* a[lo:hi + 1] of a 1-d array
SliceAxisInclusive(a, lo, hi) ==
    LET n == Cardinality(DOMAIN a)
        start == SliceFrom(lo, n)
        stop == SliceTo(hi + 1, n)
    IN  [k \in Range(Max(stop - start, 0)) |-> a[start + k]]

\* a[lo:hi] of a 1-d array
SliceAxis(a, lo, hi) ==
    LET n == Cardinality(DOMAIN a)
        start == SliceFrom(lo, n)
        stop == SliceTo(hi, n)
    IN  [k \in Range(Max(stop - start, 0)) |-> a[start + k]]

\* min and max of a non-empty set of floats
FMinOfSet(S) == CHOOSE x \in S : \A y \in S : ~FLess(y, x)

FMaxOfSet(S) == CHOOSE x \in S : \A y \in S : ~FLess(x, y)

LastOf(a) == a[Cardinality(DOMAIN a) - 1]

\* Dynspec.time_range (getter): the assigned range, by default the first
\* and last time of the observation
TimeRange(ls, cfg) ==
    IF cfg.time_range = None
    THEN <<FMinOfSet({ls[i].time_unix[0] : i \in DOMAIN ls}),
           FMaxOfSet({LastOf(ls[i].time_unix) : i \in DOMAIN ls})>>
    ELSE cfg.time_range[1]

\* Dynspec.freq_range (getter): the assigned range, by default fmin and fmax
\* of the observation
FreqRange(ls, cfg) ==
    IF cfg.freq_range = None
    THEN <<FMinOfSet({ls[i].fmin : i \in DOMAIN ls}),
           FMaxOfSet({ls[i].fmax : i \in DOMAIN ls})>>
    ELSE cfg.freq_range[1]

\* The selection get makes on the lane li: whether the lane is skipped and,
\* when it is not, the indices of the slice
\* data[:, beam_start:beam_stop][tmin_idx:tmax_idx, fmin_idx:fmax_idx]
LaneSelection(li, ls, cfg) ==
    IF cfg.beam[1] \notin DOMAIN li.beam_idx
    THEN [skipped |-> TRUE, why |-> "KeyError"]
    ELSE LET beam_start == li.beam_idx[cfg.beam[1]][1]
             beam_stop  == li.beam_idx[cfg.beam[1]][2]
             tmin_idx == ArgMinAbs(li.time_unix, TimeRange(ls, cfg)[1])
             tmax_idx == ArgMinAbs(li.time_unix, TimeRange(ls, cfg)[2])
             beam_freqs == SliceAxis(li.frequency_hz, beam_start, beam_stop)
             fmin_near == ArgMinAbs(beam_freqs, FreqRange(ls, cfg)[1])
             fmax_near == ArgMinAbs(beam_freqs, FreqRange(ls, cfg)[2])
             fmin_idx == (fmin_near \div li.n_channels) * li.n_channels
             fmax_idx == (fmax_near \div li.n_channels + 1) * li.n_channels
         IN  IF fmin_near - fmax_near = 0
             THEN [skipped |-> TRUE, why |-> "no data selected"]
             ELSE [skipped    |-> FALSE,
                   beam_start |-> beam_start,
                   beam_stop  |-> beam_stop,
                   tmin_idx   |-> tmin_idx,
                   tmax_idx   |-> tmax_idx,
                   fmin_near  |-> fmin_near,
                   fmax_near  |-> fmax_near,
                   fmin_idx   |-> fmin_idx,
                   fmax_idx   |-> fmax_idx,
                   seltimes   |-> SliceAxis(li.time_unix, tmin_idx, tmax_idx),
                   selfreqs   |-> SliceAxis(beam_freqs, fmin_idx, fmax_idx)]

\* k times the event e
Repeat(e, k) == [i \in 1 .. k |-> e]

\* What _correct_jumps does to the selected data of lane i: nothing when the
\* correction is off, otherwise two evaluations (the frequency profile and
\* the time profile) for each polarization
JumpEvents(i, cfg, npols) ==
    IF cfg.jump_correction = Some(TRUE)
    THEN Repeat(<<"compute", i, "_correct_jumps">>, 2 * npols)
    ELSE <<>>

\* What _dedisperse does to the selected data of lane i before it shifts the
\* channels: one evaluation when a dispersion measure is set
DedisperseEvents(i, cfg) ==
    IF cfg.dispersion_measure /= None
    THEN << <<"compute", i, "_dedisperse">> >>
    ELSE <<>>

\* The calls get makes for a lane it does not skip, the gain-jump
\* correction ahead of the edge flagging
LaneEventsJumpsFirst(i, cfg, npols) ==
    << <<"call", i, "_bp_correct">>,
       <<"call", i, "_correct_jumps">> >>
      \o JumpEvents(i, cfg, npols) \o
    << <<"call", i, "_remove_edge_channels">>,
       <<"call", i, "_clean">>,
       <<"call", i, "_dedisperse">> >>
      \o DedisperseEvents(i, cfg) \o
    << <<"call", i, "_rebin">>,
       <<"compute", i, "get">>,
       <<"concatenate", i>> >>

\* The calls get makes, in order, for a lane it does not skip, with the
\* evaluations of the selected data they force; the lane joins the
\* accumulated result last
LaneEvents(i, cfg, npols) ==
    << <<"call", i, "_bp_correct">>,
       <<"call", i, "_remove_edge_channels">>,
       <<"call", i, "_clean">>,
       <<"call", i, "_correct_jumps">> >>
      \o JumpEvents(i, cfg, npols) \o
    << <<"call", i, "_dedisperse">> >>
      \o DedisperseEvents(i, cfg) \o
    << <<"call", i, "_rebin">>,
       <<"compute", i, "get">>,
       <<"concatenate", i>> >>

\* np.gradient(timeProfile) in _correct_jumps needs two time samples
JumpsRaise(cfg, T) ==
    IF cfg.jump_correction = Some(TRUE) /\ T < 2 THEN "ValueError" ELSE "none"

\* The array an in-place assignment of a stage writes to, for lane i: the
\* dask array get derived from the lane.  get_stokes computes new planes
\* from the lane's data, slicing and reshape return new arrays and
\* compute() a new numpy array, so it is never the lane's own data.
InPlaceTargetLane(i, stage) == <<"lane", i>>

InPlaceTarget(i, stage) == <<"selection", i, stage>>

\* The stages that assign into their data on this configuration: edge
\* flagging (data[...] = np.nan), gain-jump correction (data[...] /= fit)
\* and dedispersion (np.roll into data, data[...] = np.nan)
InPlaceStages(cfg, n) ==
    (IF n > 0 THEN {"_remove_edge_channels"} ELSE {})
        \cup (IF cfg.jump_correction = Some(TRUE) THEN {"_correct_jumps"} ELSE {})
        \cup (IF cfg.dispersion_measure /= None THEN {"_dedisperse"} ELSE {})

\* The body of get's loop for a lane i it does not skip, with the
\* selection sel: [err, events, written, entry].  The bandpass stage is
\* that of bp_correction = 'none'.  The entry holds the shape and the axes
\* of what the lane adds to the result, and its values when neither the
\* gain-jump fit nor the dedispersion changed them.
LanePipeline(ls, cfg, n, req, i, sel) ==
    LET li == ls[i]
        stk == GetStokes(li.data, req).data[1]
        T == Cardinality(DOMAIN sel.seltimes)
        F == Cardinality(DOMAIN sel.selfreqs)
        P == Len(req)
        Cell(t, f, p) ==
            Num(At(stk, <<sel.tmin_idx + t, sel.beam_start + sel.fmin_idx + f>>)[p])
        tracked == cfg.jump_correction /= Some(TRUE) /\ cfg.dispersion_measure = None
        ev == LaneEvents(i, cfg, P)
        Wrote(stages) == {InPlaceTarget(i, st) : st \in InPlaceStages(cfg, n) \cap stages}
        AfterRebin(rebinned) ==
            IF rebinned.err /= "none"
            THEN [err     |-> rebinned.err,
                  events  |-> SubSeq(ev, 1, Len(ev) - 2),
                  written |-> Wrote({"_remove_edge_channels", "_correct_jumps", "_dedisperse"}),
                  entry   |-> None]
            ELSE [err     |-> "none",
                  events  |-> ev,
                  written |-> Wrote({"_remove_edge_channels", "_correct_jumps", "_dedisperse"}),
                  entry   |-> Some([lane  |-> i,
                                    shape |-> rebinned.data.shape,
                                    data  |-> IF tracked THEN Some(rebinned.data) ELSE None,
                                    time  |-> rebinned.times,
                                    freq  |-> rebinned.freqs] @@ sel)]
        AfterEdges(edged) ==
            IF edged.err /= "none"
            THEN [err |-> edged.err, events |-> SubSeq(ev, 1, 2), written |-> {},
                  entry |-> None]
            ELSE IF JumpsRaise(cfg, T) /= "none"
            THEN [err     |-> JumpsRaise(cfg, T),
                  events  |-> SubSeq(ev, 1, 4) \o Repeat(<<"compute", i, "_correct_jumps">>, 2),
                  written |-> Wrote({"_remove_edge_channels"}),
                  entry   |-> None]
            ELSE AfterRebin(Rebin(edged.data, sel.seltimes, sel.selfreqs, li.dt, li.df,
                                  cfg.rebin_dt, cfg.rebin_df))
    IN  AfterEdges(RemoveEdgeChannels(Arr3(T, F, P, Cell), n, nchan(ls)))

\* get that returns an empty result when no lane contributed
GetReturnLenient(acc) ==
    [err |-> "none", spec |-> acc.spec, events |-> acc.events, written |-> acc.written]

\* return spec: the name is unbound when no lane contributed
GetReturn(acc) ==
    IF acc.spec = <<>>
    THEN [err |-> "UnboundLocalError", spec |-> <<>>, events |-> acc.events,
          written |-> acc.written]
    ELSE [err |-> "none", spec |-> acc.spec, events |-> acc.events,
          written |-> acc.written]

\* The loop of get over the lanes from lane i on.  acc.spec lists what the
\* lanes that contributed add to the result, acc.events what was done,
\* acc.written the arrays that were assigned into.
RECURSIVE GetFrom(_, _, _, _, _, _)
GetFrom(ls, cfg, n, req, i, acc) ==
    LET Joined(r) ==
            IF r.err /= "none"
            THEN [err |-> r.err, spec |-> <<>>, events |-> acc.events \o r.events,
                  written |-> acc.written \cup r.written]
            ELSE GetFrom(ls, cfg, n, req, i + 1,
                         [spec    |-> Append(acc.spec, r.entry[1]),
                          events  |-> acc.events \o r.events,
                          written |-> acc.written \cup r.written])
        Selected(sel) ==
            IF sel.skipped
            THEN GetFrom(ls, cfg, n, req, i + 1, acc)
            ELSE Joined(LanePipeline(ls, cfg, n, req, i, sel))
    IN  IF i > Len(ls) THEN GetReturn(acc)
        ELSE IF cfg.beam[1] \notin DOMAIN ls[i].beam_idx
        THEN GetFrom(ls, cfg, n, req, i + 1, acc)
        ELSE IF \E k \in DOMAIN req : Upper(req[k]) \notin StokesLetters
        THEN [err |-> "NotImplementedError", spec |-> <<>>, events |-> acc.events,
              written |-> acc.written]
        ELSE Selected(LaneSelection(ls[i], ls, cfg))

\* Dynspec.get(stokes=req) on an Observation of lanes ls, configuration cfg
\* and crop count n: [err, spec, events, written]
Get(ls, cfg, n, req) ==
    GetFrom(ls, cfg, n, req, 1, [spec |-> <<>>, events |-> <<>>, written |-> {}])

\* A lane whose data were assigned into
Overwritten(li) ==
    [li EXCEPT !.data = [shape |-> @.shape, flat |-> [k \in DOMAIN @.flat |-> NaN]]]

\* The lanes after the in-place assignments of a get call
AfterWrites(ls, written) ==
    [i \in DOMAIN ls |-> IF <<"lane", i>> \in written THEN Overwritten(ls[i]) ELSE ls[i]]

\* Lists of at most MaxFiles paths
FileLists == UNION {[1 .. k -> Paths] : k \in 0 .. MaxFiles}

\* What a caller assigns to lanefiles: a list, or one path
LanefilesInputs ==
    {[islist |-> TRUE, v |-> l] : l \in FileLists}
        \cup {[islist |-> FALSE, v |-> p] : p \in Paths}

\* The paths of such an argument, as the setter sees them
ArgFiles(arg) == IF arg.islist THEN arg.v ELSE <<arg.v>>

\* Largest fftlen on disk
MaxFftlen == CHOOSE m \in {Disk[p].fftlen : p \in DOMAIN Disk} :
                 \A p \in DOMAIN Disk : Disk[p].fftlen <= m

EdgeInputs ==
    {[isint |-> TRUE, v |-> n] : n \in -1 .. (MaxFftlen \div 2 + 1)}
        \cup {[isint |-> FALSE, v |-> 0]}

IdleLane == [state |-> "idle"]

IdleStage == [state |-> "idle"]

InitOther ==
    /\ raw = IdleLane
    /\ lane = IdleLane
    /\ stokes = IdleLane
    /\ stage_in = IdleStage
    /\ stage_out = IdleStage

\* The attributes before __init__ has assigned them.  time_range and
\* freq_range stay unassigned until their setters are used.
NoConfig ==
    [beam               |-> None,
     time_range         |-> None,
     freq_range         |-> None,
     dispersion_measure |-> None,
     rebin_dt           |-> None,
     rebin_df           |-> None,
     jump_correction    |-> None,
     bp_correction      |-> None]

InitDynspecIdle ==
    /\ phase = "new"
    /\ lanes = <<>>
    /\ lanefiles = None
    /\ edge_channels_to_remove = 0
    /\ config = NoConfig
    /\ call = [op |-> "none"]
    /\ raised = "none"
    /\ log = <<>>

Init == InitDynspecIdle /\ InitOther

\* Dynspec.__init__(lanefiles=l)
Construct(l) ==
    /\ phase = "new"
    /\ call' = [op |-> "__init__", arg |-> l]
    /\ LET r == LanefilesSetter(<<>>, l) IN
       IF r.err /= "none"
       THEN /\ phase' = "failed"
            /\ raised' = r.err
            /\ UNCHANGED <<lanes, lanefiles, edge_channels_to_remove, log, config>>
       ELSE IF r.lanes = <<>>
       THEN \* tmin of the log message: min() of an empty sequence
            /\ phase' = "failed"
            /\ raised' = "ValueError"
            /\ UNCHANGED <<lanes, lanefiles, edge_channels_to_remove, log, config>>
       ELSE /\ phase' = "ready"
            /\ raised' = "none"
            /\ lanes' = r.lanes
            /\ lanefiles' = r.lanefiles
            /\ edge_channels_to_remove' =
                   EdgeSetter(r.lanes, [isint |-> TRUE, v |-> 0]).value
            /\ config' = [NoConfig EXCEPT
                              !.beam = Some(BeamSetter(r.lanes, [isint |-> TRUE, v |-> 0]).value),
                              !.jump_correction = Some(FALSE),
                              !.bp_correction = Some("none")]
            /\ log' = <<>>
    /\ UNCHANGED <<raw, lane, stokes, stage_in, stage_out>>

\* ds.lanefiles = l
SetLanefiles(l) ==
    /\ phase = "ready"
    /\ Len(lanes) + Len(ArgFiles(l)) <= MaxLanes
    /\ call' = [op |-> "lanefiles", arg |-> l]
    /\ LET r == LanefilesSetter(lanes, l) IN
       /\ lanes' = r.lanes
       /\ lanefiles' = IF r.err = "none" THEN r.lanefiles ELSE lanefiles
       /\ raised' = r.err
    /\ log' = <<>>
    /\ UNCHANGED <<phase, edge_channels_to_remove, raw, lane, stokes, stage_in, stage_out, config>>

\* ds.edge_channels_to_remove = n
SetEdgeChannels(n) ==
    /\ phase = "ready"
    /\ call' = [op |-> "edge_channels_to_remove", arg |-> n]
    /\ LET r == EdgeSetter(lanes, n) IN
       /\ edge_channels_to_remove' = r.value
       /\ log' = IF r.warned THEN <<"warning">> ELSE <<>>
    /\ raised' = "none"
    /\ UNCHANGED <<phase, lanes, lanefiles, raw, lane, stokes, stage_in, stage_out, config>>

\* ds.beam = b
SetBeam(b) ==
    /\ phase = "ready"
    /\ call' = [op |-> "beam", arg |-> b]
    /\ LET r == BeamSetter(lanes, b) IN
       /\ raised' = r.err
       /\ config' = IF r.err = "none" THEN [config EXCEPT !.beam = Some(r.value)]
                     ELSE config
       /\ log' = IF r.warned THEN <<"warning">> ELSE <<>>
    /\ UNCHANGED <<phase, lanes, lanefiles, edge_channels_to_remove,
                   raw, lane, stokes, stage_in, stage_out>>

Next ==
    \/ \E l \in LanefilesInputs : Construct(l)
    \/ \E l \in LanefilesInputs : SetLanefiles(l)
    \/ \E n \in EdgeInputs : SetEdgeChannels(n)

Spec == Init /\ [][Next]_vars

\* What a caller assigns to beam: an integer, or something else
BeamInputs ==
    {[isint |-> TRUE, v |-> n] : n \in -1 .. MaxBeamId} \cup {[isint |-> FALSE, v |-> 0]}

\* The selection attributes of an Observation: construction, attachment of
\* further files and beam selection
NextSelect ==
    \/ \E l \in LanefilesInputs : Construct(l)
    \/ \E p \in Paths : SetLanefiles([islist |-> FALSE, v |-> p])
    \/ \E b \in BeamInputs : SetBeam(b)

SpecSelect == Init /\ [][NextSelect]_vars

----------------------------------------------------------------------------
(* Decoding one lane file *)

\* The content of a lane file of ntb blocks: the header fields, the beam id
\* of each subband (first block) and the raw arrays fft0 = [XX, YY],
\* fft1 = [Re(XY*), Im(XY*)] of shape (ntb, nsub, nffte, nch, 2).  The
\* sample at offset k of the file holds the base values shifted by
\* multiples of k, so that no two samples are equal.
RawFile(ntb, nsub, nffte, nch, base, beams) ==
    LET shape == <<ntb, nsub, nffte, nch>>
        Fft0(idx) == LET k == Ravel(idx, shape)
                     IN  StackLast(<<base.xx + k, base.yy + 2 * k>>)
        Fft1(idx) == LET k == Ravel(idx, shape)
                     IN  StackLast(<<base.re + 3 * k, base.im - k>>)
    IN  [state   |-> "file",
         size    |-> ntb * Itemsize(nffte, nch, nsub),
         header  |-> [TIMESTAMP |-> 100, BLOCKSEQNUMBER |-> 78125, fftlen |-> nch,
                      nfft2int |-> 1, nffte |-> nffte, nbchan |-> nsub],
         beam    |-> beams,
         channel |-> [s \in Range(nsub) |-> 200 + s],
         fft0   |-> NdFrom(shape, Fft0),
         fft1   |-> NdFrom(shape, Fft1)]

ZeroBase == [xx |-> 0, yy |-> 0, re |-> 0, im |-> 0]

\* The same file followed by bytes that do not make a block
WithTrailingBytes(file, extra) == [file EXCEPT !.size = @ + extra]

\* The same file with another integration factor in its header
WithNfft2int(file, nfft2int) == [file EXCEPT !.header.nfft2int = nfft2int]

\* Base samples of the files used for the Stokes extraction
BaseSamples ==
    {[xx |-> 3, yy |-> 5, re |-> 0, im |-> 0],
     [xx |-> 1, yy |-> 2, re |-> 2, im |-> -1],
     [xx |-> 0, yy |-> 4, re |-> -1, im |-> 3]}

\* One-subband, two-channel, two-sample lane files
SmallRawFiles ==
    {RawFile(1, 1, 2, 2, base, [s \in Range(1) |-> 0]) : base \in BaseSamples}

RequestLetters ==
    {"I", "i", "Q", "q", "U", "u", "V", "v", "L", "l", "X", "x", "Y", "y"}

\* Polarization requests: strings of at most MaxRequest letters
Requests == UNION {[1 .. k -> RequestLetters] : k \in 0 .. MaxRequest}

\* Lane files of every shape within the bounds, with no block at all, with
\* trailing bytes (one byte short of a block) and with every arrangement of
\* beam ids over the subbands
InitLoad ==
    /\ InitDynspecIdle
    /\ \E ntb \in 0 .. MaxTimeBlocks, nsub \in 1 .. MaxSubbands, nffte \in 1 .. MaxNffte,
          nch \in 1 .. MaxChannels, nfft2int \in 1 .. MaxNfft2int :
         \E beams \in [Range(nsub) -> 0 .. MaxBeam],
            extra \in {0, Itemsize(nffte, nch, nsub) - 1} :
           raw = WithTrailingBytes(
                     WithNfft2int(RawFile(ntb, nsub, nffte, nch, ZeroBase, beams), nfft2int),
                     extra)
    /\ lane = IdleLane
    /\ stokes = IdleLane
    /\ stage_in = IdleStage
    /\ stage_out = IdleStage

InitStokes ==
    /\ InitDynspecIdle
    /\ raw \in SmallRawFiles
    /\ lane = IdleLane
    /\ stokes = IdleLane
    /\ stage_in = IdleStage
    /\ stage_out = IdleStage

\* _Lane(lanefile)._load()
Load ==
    /\ raw.state = "file"
    /\ lane.state = "idle"
    /\ lane' = LoadLane(raw)
    /\ UNCHANGED <<phase, lanes, lanefiles, edge_channels_to_remove, call, raised, log,
                   raw, stokes, stage_in, stage_out, config>>

\* lane.get_stokes(stokes=req), the call Dynspec.get makes with the string
\* it was given
CallGetStokes(req) ==
    /\ lane.state = "loaded"
    /\ stokes.state = "idle"
    /\ LET r == GetStokes(lane.data, req)
       IN  stokes' = [state |-> "done", req |-> req, err |-> r.err, data |-> r.data]
    /\ UNCHANGED <<phase, lanes, lanefiles, edge_channels_to_remove, call, raised, log,
                   raw, lane, stage_in, stage_out, config>>

NextLoad == Load

SpecLoad == InitLoad /\ [][NextLoad]_vars

NextStokes ==
    \/ Load
    \/ \E req \in Requests : CallGetStokes(req)

SpecStokes == InitStokes /\ [][NextStokes]_vars

----------------------------------------------------------------------------
(* The beam index map of a lane *)

\* Every arrangement of beam ids over the subbands of the first block
InitBeams ==
    /\ InitDynspecIdle
    /\ \E nsub \in 1 .. MaxBeamSubbands, n_channels \in 1 .. MaxChannels :
         \E beam_array \in [Range(nsub) -> 0 .. MaxBeam] :
           raw = [state |-> "beam_array", beam |-> beam_array, n_channels |-> n_channels]
    /\ lane = IdleLane
    /\ stokes = IdleLane
    /\ stage_in = IdleStage
    /\ stage_out = IdleStage

\* self.beam_idx = self._sort_beam_edges(beam_array, n_channels)
SortBeams ==
    /\ raw.state = "beam_array"
    /\ lane.state = "idle"
    /\ lane' = [state |-> "beams", beam_idx |-> SortBeamEdges(raw.beam, raw.n_channels)]
    /\ UNCHANGED <<phase, lanes, lanefiles, edge_channels_to_remove, call, raised, log,
                   raw, stokes, stage_in, stage_out, config>>

NextBeams == SortBeams

SpecBeams == InitBeams /\ [][NextBeams]_vars

----------------------------------------------------------------------------
(* Dynspec.get on an Observation of loaded lanes *)

\* The same file with other channel ids on its subbands
WithChannels(file, channels) ==
    [file EXCEPT !.channel = [sb \in DOMAIN @ |-> channels[sb + 1]]]

\* A lane file of three blocks of one spectrum of two channels per subband
SmallFile(beams, channels) ==
    WithChannels(RawFile(3, Len(beams), 1, 2, ZeroBase,
                         [sb \in Range(Len(beams)) |-> beams[sb + 1]]),
                 channels)

\* The lanes an Observation is made of: one subband of beam 0; two subbands
\* of beam 0 in ascending and in descending order of channel id; one
\* subband of beam 0 followed by one of beam 1
GetLanes ==
    << LoadLane(SmallFile(<<0>>, <<200>>)),
       LoadLane(SmallFile(<<0, 0>>, <<200, 201>>)),
       LoadLane(SmallFile(<<0, 0>>, <<201, 200>>)),
       LoadLane(SmallFile(<<0, 1>>, <<200, 201>>)) >>

\* Centre frequency of the subband of channel id c: c * 195312.5 Hz
SubbandFrequency(c) == Frac(c * 390625, 2)

\* The frequency ranges a caller selects: none (the whole observation),
\* below every subband, and ranges over the subbands 200 and 201
FreqRangeInputs ==
    {None,
     Some(<<SubbandFrequency(198), SubbandFrequency(199)>>),
     Some(<<SubbandFrequency(200), SubbandFrequency(201)>>),
     Some(<<SubbandFrequency(199), SubbandFrequency(202)>>),
     Some(<<SubbandFrequency(201), SubbandFrequency(202)>>)}

\* The polarization requests of get
GetRequests == {<<"I">>, <<"I", "Q">>, <<"L">>}

\* An Observation of one to MaxGetLanes lanes after __init__ and after
\* assignments to beam, freq_range, jump_correction and dispersion_measure
InitGet ==
    /\ phase = "ready"
    /\ \E n \in 1 .. MaxGetLanes : \E pick \in [1 .. n -> DOMAIN GetLanes] :
           lanes = [i \in 1 .. n |-> GetLanes[pick[i]]]
    /\ lanefiles = None
    /\ edge_channels_to_remove = 0
    /\ \E b \in Beams(lanes), f \in FreqRangeInputs, j \in BOOLEAN, dm \in {None, Some(1)} :
           config = [NoConfig EXCEPT !.beam = Some(b),
                                     !.freq_range = f,
                                     !.dispersion_measure = dm,
                                     !.jump_correction = Some(j),
                                     !.bp_correction = Some("none")]
    /\ call = [op |-> "none"]
    /\ raised = "none"
    /\ log = <<>>
    /\ raw = IdleLane
    /\ lane = IdleLane
    /\ stokes = IdleLane
    /\ stage_in = IdleStage
    /\ stage_out = IdleStage

\* ds.get(stokes=req).  log receives what get did to the selected data,
\* stage_out the selections of the lanes that make the result.
DoGet(req) ==
    /\ phase = "ready"
    /\ \E r \in {Get(lanes, config, edge_channels_to_remove, req)} :
       /\ raised' = r.err
       /\ log' = r.events
       /\ stage_out' = [state |-> "returned", spec |-> r.spec]
       /\ lanes' = AfterWrites(lanes, r.written)
    /\ call' = [op |-> "get", arg |-> req]
    /\ UNCHANGED <<phase, lanefiles, edge_channels_to_remove,
                   raw, lane, stokes, stage_in, config>>

NextGet == \E req \in GetRequests : DoGet(req)

SpecGet == InitGet /\ [][NextGet]_vars

\* The time ranges a caller selects on a lane of time axis t: none (the
\* whole observation), from the second sample to the last, a range before
\* the first sample, and a range that starts half-way between the first two
\* samples
TimeRangeChoices(t) ==
    {None,
     Some(<<t[1], LastOf(t)>>),
     Some(<<FSub(t[0], Num(2)), FSub(t[0], Num(1))>>),
     Some(<<FDivInt(FAdd(t[0], t[1]), 2), FAdd(LastOf(t), Num(1))>>)}

\* The stages enabled on an Observation: crop count, gain-jump correction
\* and dispersion measure
StageChoices ==
    {[n |-> 0, jump |-> FALSE, dm |-> None],
     [n |-> 1, jump |-> FALSE, dm |-> None],
     [n |-> 0, jump |-> TRUE,  dm |-> None],
     [n |-> 0, jump |-> FALSE, dm |-> Some(1)],
     [n |-> 1, jump |-> TRUE,  dm |-> Some(1)]}

\* An Observation of one to MaxGetLanes lanes after __init__ and after
\* assignments to beam, time_range, edge_channels_to_remove,
\* jump_correction and dispersion_measure
InitGetData ==
    /\ phase = "ready"
    /\ \E k \in 1 .. MaxGetLanes : \E pick \in [1 .. k -> DOMAIN GetLanes] :
           lanes = [i \in 1 .. k |-> GetLanes[pick[i]]]
    /\ lanefiles = None
    /\ \E b \in Beams(lanes), t \in TimeRangeChoices(lanes[1].time_unix),
          st \in StageChoices :
           /\ edge_channels_to_remove = st.n
           /\ config = [NoConfig EXCEPT !.beam = Some(b),
                                        !.time_range = t,
                                        !.dispersion_measure = st.dm,
                                        !.jump_correction = Some(st.jump),
                                        !.bp_correction = Some("none")]
    /\ call = [op |-> "none"]
    /\ raised = "none"
    /\ log = <<>>
    /\ raw = IdleLane
    /\ lane = IdleLane
    /\ stokes = IdleLane
    /\ stage_in = IdleStage
    /\ stage_out = IdleStage

SpecGetData == InitGetData /\ [][NextGet]_vars

----------------------------------------------------------------------------
(* The selection and configuration attributes of a Dynspec object *)

\* x >= y and x < y of Python floats: every comparison with NaN is False
FGreaterEqual(x, y) == ~IsNaN(x) /\ ~IsNaN(y) /\ ~FLess(x, y)

FLessThan(x, y) == ~IsNaN(x) /\ ~IsNaN(y) /\ FLess(x, y)

\* A setter's outcome: the exception raised with the stored value as it was,
\* or the new stored value
Rejected(err, prev) == [err |-> err, value |-> prev]

Stored(v) == [err |-> "none", value |-> Some(v)]

\* Time(ti, precision=7) of an element of the list: a Time stays what it
\* is, a string is parsed; [ok, unix]
ToTime(ti) ==
    IF ti.kind = "Time" THEN [ok |-> TRUE, unix |-> ti.unix]
    ELSE IF ti.unix = None THEN [ok |-> FALSE, unix |-> NaN]
    ELSE [ok |-> TRUE, unix |-> ti.unix[1]]

\* Dynspec.time_range setter.  t is [islist, v]; the elements of v are
\* [kind |-> "Time", unix] or [kind |-> "str", unix |-> Some(instant) or
\* None for a string that is not a date]
TimeRangeSetter(prev, t) ==
    IF ~t.islist THEN Rejected("TypeError", prev)
    ELSE IF Len(t.v) /= 2 THEN Rejected("ValueError", prev)
    ELSE LET allTime == \A k \in 1 .. 2 : t.v[k].kind = "Time"
             conv == [k \in 1 .. 2 |-> ToTime(t.v[k])]
         IN  IF ~allTime /\ \E k \in 1 .. 2 : ~conv[k].ok
             THEN Rejected("ValueError", prev)
             ELSE IF FGreaterEqual(conv[1].unix, conv[2].unix)
             THEN Rejected("ValueError", prev)
             ELSE Stored(<<conv[1].unix, conv[2].unix>>)

\* q.to(u.Hz) of a frequency [value, unit]
ToHz(q) == IF q.unit = "MHz" THEN FMul(q.value, Num(1000000)) ELSE q.value

\* Dynspec.freq_range setter.  f is [islist, v]; the elements of v are
\* [kind |-> "Quantity", value, unit] or [kind |-> "float", value].  When
\* an element is not a Quantity every element is multiplied by u.MHz, which
\* gives a Quantity of the list a unit that compares with no frequency.
FreqRangeSetter(prev, f) ==
    IF ~f.islist THEN Rejected("TypeError", prev)
    ELSE IF Len(f.v) /= 2 THEN Rejected("ValueError", prev)
    ELSE LET allQuantity == \A k \in 1 .. 2 : f.v[k].kind = "Quantity"
             allFloat == \A k \in 1 .. 2 : f.v[k].kind = "float"
             q == [k \in 1 .. 2 |->
                      IF f.v[k].kind = "Quantity" THEN f.v[k]
                      ELSE [kind |-> "Quantity", value |-> f.v[k].value, unit |-> "MHz"]]
         IN  IF ~allQuantity /\ ~allFloat THEN Rejected("UnitConversionError", prev)
             ELSE IF FGreaterEqual(ToHz(q[1]), ToHz(q[2]))
             THEN Rejected("ValueError", prev)
             ELSE Stored(<<ToHz(q[1]), ToHz(q[2])>>)

\* str.lower on the words a caller passes
Lower(b) ==
    CASE b = "MEDIAN" -> "median"
      [] b = "None" -> "none"
      [] b = "Polynomial" -> "polynomial"
      [] OTHER -> b

BpModes == {"standard", "median", "none", "adjusted"}

\* Dynspec.bp_correction setter; b is [isstr, v]
BpCorrectionSetter(prev, b) ==
    IF ~b.isstr THEN Rejected("TypeError", prev)
    ELSE IF Lower(b.v) \notin BpModes THEN Rejected("ValueError", prev)
    ELSE Stored(Lower(b.v))

\* Dynspec.jump_correction setter; j is [isbool, v]
JumpCorrectionSetter(prev, j) ==
    IF ~j.isbool THEN Rejected("TypeError", prev)
    ELSE Stored(j.v)

\* Instants and frequencies a caller passes
Instant(k) == Num(500 + k)

TimeElements ==
    {[kind |-> "Time", unix |-> Instant(k)] : k \in 0 .. 1}
        \cup {[kind |-> "str", unix |-> Some(Instant(1))],
              [kind |-> "str", unix |-> None]}

TimeRangeInputs ==
    {[islist |-> FALSE, v |-> <<>>]}
        \cup {[islist |-> TRUE, v |-> SubSeq(<<a, a, a>>, 1, n)] :
                  a \in {[kind |-> "Time", unix |-> Instant(0)]}, n \in {0, 1, 3}}
        \cup {[islist |-> TRUE, v |-> <<a, b>>] : a, b \in TimeElements}

FreqElements ==
    {[kind |-> "float", value |-> Num(39)],
     [kind |-> "float", value |-> Num(40)],
     [kind |-> "float", value |-> NaN],
     [kind |-> "Quantity", value |-> Num(39500000), unit |-> "Hz"],
     [kind |-> "Quantity", value |-> Num(40), unit |-> "MHz"]}

FreqRangeAssignments ==
    {[islist |-> FALSE, v |-> <<>>]}
        \cup {[islist |-> TRUE, v |-> SubSeq(<<a, a, a>>, 1, n)] :
                  a \in {[kind |-> "float", value |-> Num(40)]}, n \in {0, 1, 3}}
        \cup {[islist |-> TRUE, v |-> <<a, b>>] : a, b \in FreqElements}

BpInputs ==
    {[isstr |-> TRUE, v |-> w] :
         w \in {"standard", "median", "none", "adjusted", "MEDIAN", "Polynomial"}}
        \cup {[isstr |-> FALSE, v |-> ""]}

JumpInputs ==
    {[isbool |-> TRUE, v |-> w] : w \in BOOLEAN} \cup {[isbool |-> FALSE, v |-> FALSE]}

\* An Observation of one lane right after __init__
InitConfig ==
    /\ phase = "ready"
    /\ \E pick \in {1, 4} : lanes = <<GetLanes[pick]>>
    /\ lanefiles = None
    /\ edge_channels_to_remove = 0
    /\ config = [NoConfig EXCEPT
                     !.beam = Some(BeamSetter(lanes, [isint |-> TRUE, v |-> 0]).value),
                     !.jump_correction = Some(FALSE),
                     !.bp_correction = Some("none")]
    /\ call = [op |-> "none"]
    /\ raised = "none"
    /\ log = <<>>
    /\ raw = IdleLane
    /\ lane = IdleLane
    /\ stokes = IdleLane
    /\ stage_in = IdleStage
    /\ stage_out = IdleStage

\* ds.time_range = t
SetTimeRange(t) ==
    /\ phase = "ready"
    /\ call' = [op |-> "time_range", arg |-> t]
    /\ LET r == TimeRangeSetter(config.time_range, t) IN
       /\ raised' = r.err
       /\ config' = [config EXCEPT !.time_range = r.value]
    /\ log' = <<>>
    /\ UNCHANGED <<phase, lanes, lanefiles, edge_channels_to_remove,
                   raw, lane, stokes, stage_in, stage_out>>

\* ds.freq_range = f
SetFreqRange(f) ==
    /\ phase = "ready"
    /\ call' = [op |-> "freq_range", arg |-> f]
    /\ LET r == FreqRangeSetter(config.freq_range, f) IN
       /\ raised' = r.err
       /\ config' = [config EXCEPT !.freq_range = r.value]
    /\ log' = <<>>
    /\ UNCHANGED <<phase, lanes, lanefiles, edge_channels_to_remove,
                   raw, lane, stokes, stage_in, stage_out>>

\* ds.bp_correction = b
SetBpCorrection(b) ==
    /\ phase = "ready"
    /\ call' = [op |-> "bp_correction", arg |-> b]
    /\ LET r == BpCorrectionSetter(config.bp_correction, b) IN
       /\ raised' = r.err
       /\ config' = [config EXCEPT !.bp_correction = r.value]
    /\ log' = <<>>
    /\ UNCHANGED <<phase, lanes, lanefiles, edge_channels_to_remove,
                   raw, lane, stokes, stage_in, stage_out>>

\* ds.jump_correction = j
SetJumpCorrection(j) ==
    /\ phase = "ready"
    /\ call' = [op |-> "jump_correction", arg |-> j]
    /\ LET r == JumpCorrectionSetter(config.jump_correction, j) IN
       /\ raised' = r.err
       /\ config' = [config EXCEPT !.jump_correction = r.value]
    /\ log' = <<>>
    /\ UNCHANGED <<phase, lanes, lanefiles, edge_channels_to_remove,
                   raw, lane, stokes, stage_in, stage_out>>

NextConfig ==
    \/ \E t \in TimeRangeInputs : SetTimeRange(t)
    \/ \E f \in FreqRangeAssignments : SetFreqRange(f)
    \/ \E b \in BpInputs : SetBpCorrection(b)
    \/ \E j \in JumpInputs : SetJumpCorrection(j)
    \/ \E b \in BeamInputs : SetBeam(b)

SpecConfig == InitConfig /\ [][NextConfig]_vars

----------------------------------------------------------------------------
(* The correction stages of Dynspec.get, one at a time *)

\* A selection of T spectra of F channels and P polarizations in which no
\* two samples are equal
LabelData(T, F, P) ==
    LET Cell(t, f, p) == LET k == (t * F + f) * P + p IN Num(k * k + 1)
    IN  Arr3(T, F, P, Cell)

\* The same with a first sample that is already flagged
WithNaN(data) == [data EXCEPT !.v[<<0, 0, 0>>] = NaN]

\* The axis of n values start, start + step, ...
Axis(n, start, step) == [i \in Range(n) |-> start + i * step]

\* Lowest channel frequency of a selection
FirstFreq == 2

OptionalUpTo(n) == {None} \cup {Some(x) : x \in 0 .. n}

\* The selection get hands to _dedisperse: T spectra of F channels and P
\* polarizations, the channel frequencies, the time step, the configured
\* dispersion measure and the upper end of freq_range
DedisperseInput(T, F, P, dt, dm, fref) ==
    [state |-> "ready", stage |-> "_dedisperse",
     data  |-> LabelData(T, F, P),
     freqs |-> Axis(F, FirstFreq, 1),
     dt    |-> dt,
     dm    |-> dm,
     fref  |-> fref]

\* The selection get hands to _rebin, with the configured rebin_dt and
\* rebin_df
RebinInput(T, F, P, flagged, dt, df, rdt, rdf) ==
    [state |-> "ready", stage |-> "_rebin",
     data  |-> IF flagged THEN WithNaN(LabelData(T, F, P)) ELSE LabelData(T, F, P),
     times |-> [i \in Range(T) |-> Num(10 + i * dt)],
     freqs |-> [i \in Range(F) |-> Num(FirstFreq + i * df)],
     dt    |-> dt,
     df    |-> df,
     rebin_dt |-> rdt,
     rebin_df |-> rdf]

InitStage ==
    /\ InitDynspecIdle
    /\ raw = IdleLane
    /\ lane = IdleLane
    /\ stokes = IdleLane
    /\ stage_out = IdleStage

\* freq_range[1] lies at, above or below the top channel of the selection
InitDedisperse ==
    /\ InitStage
    /\ \E T \in 1 .. MaxTimes, F \in 1 .. MaxFreqs, P \in 1 .. MaxPols,
          dt \in {1, 2}, dm \in OptionalUpTo(MaxDM), above \in {-1, 0, 1} :
           stage_in = DedisperseInput(T, F, P, dt, dm, FirstFreq + F - 1 + above)

InitRebin ==
    /\ InitStage
    /\ \E T \in 1 .. MaxTimes, F \in 1 .. MaxFreqs, P \in 1 .. MaxPols,
          flagged \in BOOLEAN, dt \in {1, 2}, df \in {1, 2},
          rdt \in OptionalUpTo(MaxRebin), rdf \in OptionalUpTo(MaxRebin) :
           stage_in = RebinInput(T, F, P, flagged, dt, df, rdt, rdf)

\* data = self._dedisperse(data=data, freqs=selfreqs, dt=li.dt)
ApplyDedisperse ==
    /\ stage_in.state = "ready"
    /\ stage_in.stage = "_dedisperse"
    /\ stage_out.state = "idle"
    /\ LET r == Dedisperse(stage_in.data, stage_in.freqs, stage_in.dt,
                           stage_in.dm, stage_in.fref)
       IN  /\ stage_out' = [state |-> "done", err |-> r.err, data |-> r.data]
           /\ raised' = r.err
    /\ call' = [op |-> "_dedisperse"]
    /\ log' = IF stage_in.dm = None THEN <<>>
              ELSE IF raised' /= "none" THEN << <<"Starting de-dispersion...">> >>
              ELSE << <<"Starting de-dispersion...">>, <<"Data are de-dispersed.">> >>
    /\ UNCHANGED <<phase, lanes, lanefiles, edge_channels_to_remove,
                   raw, lane, stokes, stage_in, config>>

\* data, seltimes, selfreqs = self._rebin(data, times, freqs, dt, df)
ApplyRebin ==
    /\ stage_in.state = "ready"
    /\ stage_in.stage = "_rebin"
    /\ stage_out.state = "idle"
    /\ LET r == Rebin(stage_in.data, stage_in.times, stage_in.freqs,
                      stage_in.dt, stage_in.df, stage_in.rebin_dt, stage_in.rebin_df)
       IN  /\ stage_out' = [state |-> "done", err |-> r.err, data |-> r.data,
                            times |-> r.times, freqs |-> r.freqs]
           /\ raised' = r.err
           /\ log' = r.log
    /\ call' = [op |-> "_rebin"]
    /\ UNCHANGED <<phase, lanes, lanefiles, edge_channels_to_remove,
                   raw, lane, stokes, stage_in, config>>

\* The selection get hands to _remove_edge_channels: T spectra of S
\* subbands of C channels and P polarizations of a lane, on an Observation
\* whose first lane has C0 channels per subband and whose crop count is n
EdgeInput(T, S, C, P, C0, n) ==
    [state |-> "ready", stage |-> "_remove_edge_channels",
     data  |-> LabelData(T, S * C, P),
     n_channels |-> C,
     nchan |-> C0,
     n     |-> n]

\* The channel counts _to2d accepts
ChannelCounts == {c \in 2 .. MaxChannels : c % 2 = 0}

\* The crop counts the setter stores on an Observation whose first lane has
\* C0 channels per subband
StoredCrops(C0) == {n \in 0 .. C0 : 2 * n <= C0}

InitEdge ==
    /\ InitStage
    /\ \E T \in 1 .. MaxTimes, S \in 1 .. MaxSubbands, P \in 1 .. MaxPols,
          C \in ChannelCounts, C0 \in ChannelCounts :
          \E n \in StoredCrops(C0) :
              stage_in = EdgeInput(T, S, C, P, C0, n)

\* data = self._remove_edge_channels(data=data)
ApplyEdge ==
    /\ stage_in.state = "ready"
    /\ stage_in.stage = "_remove_edge_channels"
    /\ stage_out.state = "idle"
    /\ LET r == RemoveEdgeChannels(stage_in.data, stage_in.n, stage_in.nchan)
       IN  /\ stage_out' = [state |-> "done", err |-> r.err, data |-> r.data]
           /\ raised' = r.err
           /\ log' = IF stage_in.n > 0 /\ r.err = "none"
                     THEN << <<"channels have been set to NaN at the subband edges.">> >>
                     ELSE <<>>
    /\ call' = [op |-> "_remove_edge_channels"]
    /\ UNCHANGED <<phase, lanes, lanefiles, edge_channels_to_remove,
                   raw, lane, stokes, stage_in, config>>

NextEdge == ApplyEdge

SpecEdge == InitEdge /\ [][NextEdge]_vars

\* A selection of T spectra whose level drops from 4 to 2 at sample j of
\* polarization 0 and one sample later for each further polarization, the
\* channel f being f + 1 times as strong
SteppedData(T, F, P, j) ==
    LET Cell(t, f, p) == Num((f + 1) * (IF t < j + p THEN 4 ELSE 2))
    IN  Arr3(T, F, P, Cell)

\* Time steps in seconds: dt = 5.12e-6 * fftlen * nfft2int for headers of
\* fftlen = 2 and nfft2int = 7031250, 12500000, 17578125
JumpSteps == {Num(72), Num(128), Num(180)}

\* The selection get hands to _correct_jumps
JumpInput(T, F, P, j, dt, enabled) ==
    [state |-> "ready", stage |-> "_correct_jumps",
     data  |-> SteppedData(T, F, P, j),
     dt    |-> dt,
     enabled |-> enabled]

InitJumps ==
    /\ InitStage
    /\ \E T \in 2 .. MaxJumpSamples, F \in 1 .. 2, P \in 1 .. MaxPols,
          dt \in JumpSteps, enabled \in BOOLEAN :
          \E j \in 0 .. T - 1 :
              stage_in = JumpInput(T, F, P, j, dt, enabled)

\* data = self._correct_jumps(data=data, dt=li.dt)
ApplyJumps ==
    /\ stage_in.state = "ready"
    /\ stage_in.stage = "_correct_jumps"
    /\ stage_out.state = "idle"
    /\ \E fits \in BOOLEAN :
           LET r == CorrectJumps(stage_in.data, stage_in.dt, stage_in.enabled, fits)
           IN  /\ stage_out' = [state |-> "done", err |-> r.err, data |-> r.data,
                                edges |-> r.edges]
               /\ raised' = r.err
    /\ log' = IF stage_in.enabled THEN << <<"Correcting for 6 min pointing jumps...">> >>
              ELSE <<>>
    /\ call' = [op |-> "_correct_jumps"]
    /\ UNCHANGED <<phase, lanes, lanefiles, edge_channels_to_remove,
                   raw, lane, stokes, stage_in, config>>

NextJumps == ApplyJumps

SpecJumps == InitJumps /\ [][NextJumps]_vars

NextDedisperse == ApplyDedisperse

SpecDedisperse == InitDedisperse /\ [][NextDedisperse]_vars

NextRebin == ApplyRebin

SpecRebin == InitRebin /\ [][NextRebin]_vars

----------------------------------------------------------------------------
(* Claims on the Dynspec object *)

\* The paths of an argument all name files a lane can be built from
AllAttachable(arg) ==
    \A i \in 1 .. Len(ArgFiles(arg)) : NewLane(ArgFiles(arg)[i]).err = "none"

\* The paths of an argument do not all carry the same observation prefix
MixedSessions(arg) ==
    \E i, j \in 1 .. Len(ArgFiles(arg)) :
        ObsPrefix(abspath(ArgFiles(arg)[i])) /= ObsPrefix(abspath(ArgFiles(arg)[j]))

\* C1: an assignment to lanefiles (at construction or later) whose files do
\* not all share the same filename prefix raises ValueError; files of
\* different sessions are never silently accepted.
C1_MixedSessionsRejected ==
    (/\ call.op \in {"__init__", "lanefiles"}
     /\ AllAttachable(call.arg)
     /\ MixedSessions(call.arg))
        => raised = "ValueError"

\* A subband of nchannels finite channels, one time sample, one polarization
OneSubband(nchannels) ==
    LET One(t, f, p) == Num(1) IN Arr3(1, nchannels, 1, One)

\* C3: after any sequence of assignments the stored crop count n satisfies
\* n >= 0 and 2n < channels-per-subband; assigning n = channels/2 falls back
\* to 0 with a warning; edge flagging never turns a whole subband into NaN.
C3_EdgeCropBounded ==
    phase = "ready" =>
        /\ edge_channels_to_remove >= 0
        /\ 2 * edge_channels_to_remove < nchan(lanes)
        /\ (/\ call.op = "edge_channels_to_remove"
            /\ call.arg.isint
            /\ 2 * call.arg.v = nchan(lanes))
               => (edge_channels_to_remove = 0 /\ log = <<"warning">> /\ raised = "none")
        /\ LET out == RemoveEdgeChannels(OneSubband(nchan(lanes)),
                                         edge_channels_to_remove, nchan(lanes)).data
           IN  \E f \in Range(nchan(lanes)) : ~IsNaN(out.v[<<0, f, 0>>])

----------------------------------------------------------------------------
(* Claims on the _Lane *)

\* The raw index (block, subband, sample in block, channel) that _to2d
\* puts at time t, frequency f: the two halves of each subband swapped
SourceIndex(t, f, nffte, nch) ==
    <<t \div nffte, f \div nch, t % nffte, ((f % nch) + nch \div 2) % nch>>

SampleIndices(data) == Range(data.shape[1]) \X Range(data.shape[2])

\* C6: for every sample the eJones element e has e[0,0] = XX, e[1,1] = YY,
\* e[0,1] = Re(XY*) - i Im(XY*) and e[1,0] = Re(XY*) + i Im(XY*).
C6_EjonesLayout ==
    lane.state = "loaded" =>
        \A i \in SampleIndices(lane.data) :
            LET src == SourceIndex(i[1], i[2], raw.header.nffte, raw.header.fftlen)
                f0 == At(raw.fft0, src)
                f1 == At(raw.fft1, src)
                e == At(lane.data, i)
            IN  /\ e[0][0] = Complex(f0[0], 0)
                /\ e[1][1] = Complex(f0[1], 0)
                /\ e[0][1] = Complex(f1[0], -f1[1])
                /\ e[1][0] = Complex(f1[0], f1[1])

\* What the documentation gives for a Stokes letter from the raw values
DocumentedStokes(letter, f0, f1) ==
    CASE letter = "I" -> f0[0] + f0[1]
      [] letter = "Q" -> f0[0] - f0[1]
      [] letter = "U" -> 2 * f1[0]
      [] letter = "V" -> 2 * f1[1]

OnlyStokesLetters(req) == \A k \in 1 .. Len(req) : Upper(req[k]) \in StokesLetters

\* C7: for every sample and every non-empty request over I, Q, U, V in any
\* letter case, get_stokes returns one plane per letter, in request order,
\* with I = XX + YY, Q = XX - YY, U = 2 Re(XY*), V = 2 Im(XY*) of the raw
\* fft0/fft1 values of that sample.
C7_StokesFormulas ==
    (stokes.state = "done" /\ stokes.req /= <<>> /\ OnlyStokesLetters(stokes.req)) =>
        /\ stokes.err = "none"
        /\ stokes.data /= None
        /\ stokes.data[1].shape = lane.data.shape
        /\ \A i \in SampleIndices(lane.data) :
               LET src == SourceIndex(i[1], i[2], raw.header.nffte, raw.header.fftlen)
                   planes == At(stokes.data[1], i)
               IN  /\ DOMAIN planes = Range(Len(stokes.req))
                   /\ \A p \in Range(Len(stokes.req)) :
                          planes[p] = DocumentedStokes(Upper(stokes.req[p + 1]),
                                                       At(raw.fft0, src), At(raw.fft1, src))

\* XX = 3, YY = 5, no cross term: the request "iQ" gives I = 8, Q = -2
C7_Witness ==
    /\ stokes.state = "done"
    /\ stokes.req = <<"i", "Q">>
    /\ stokes.err = "none"
    /\ \E i \in SampleIndices(lane.data) :
           /\ At(raw.fft0, SourceIndex(i[1], i[2], raw.header.nffte, raw.header.fftlen))
                  = StackLast(<<3, 5>>)
           /\ At(stokes.data[1], i) = StackLast(<<8, -2>>)

UpperAll(req) == [k \in 1 .. Len(req) |-> Upper(req[k])]

\* The selectors the documentation of Dynspec.get allows
DocumentedSelectors ==
    {<<"I">>, <<"Q">>, <<"U">>, <<"V">>, <<"L">>, <<"X", "X">>, <<"Y", "Y">>}

\* C8: each documented selector 'I', 'Q', 'U', 'V', 'L', 'XX', 'YY' (in any
\* letter case) is accepted and gives a result; none raises.
C8_DocumentedSelectorsAccepted ==
    (stokes.state = "done" /\ UpperAll(stokes.req) \in DocumentedSelectors) =>
        (stokes.err = "none" /\ stokes.data /= None)

SourceChannel(k) ==
    CHOOSE c \in Range(raw.header.fftlen) :
        At(lane.data, <<0, k>>)[0][0].re = At(raw.fft0, <<0, 0, 0, c>>)[0]

\* C10: for even n_channels, out[tb*nffte + j, s*n_channels + k] =
\* in[tb, s, j, (k + n_channels/2) mod n_channels] for all indices, so the
\* half swap applied twice gives back the original channel order; for odd
\* n_channels the reorder raises.  Stated for files that hold a block.
C10_HalvesSwapped ==
    (lane.state /= "idle" /\ raw.fft0.shape[1] > 0) =>
        LET nch == raw.header.fftlen
            nffte == raw.header.nffte
            shape == raw.fft0.shape
        IN  IF nch % 2 = 0
            THEN /\ lane.state = "loaded"
                 /\ lane.data.shape = <<shape[1] * nffte, shape[2] * nch>>
                 /\ \A tb \in Range(shape[1]), s \in Range(shape[2]),
                       j \in Range(nffte), k \in Range(nch) :
                        LET e == At(lane.data, <<tb * nffte + j, s * nch + k>>)
                            f0 == At(raw.fft0, <<tb, s, j, (k + nch \div 2) % nch>>)
                        IN  e[0][0].re = f0[0] /\ e[1][1].re = f0[1]
                 /\ \A k \in Range(nch) : SourceChannel(SourceChannel(k)) = k
            ELSE lane.state = "failed" /\ lane.err = "ValueError"

\* a lane of two blocks, two subbands, two samples per block, four channels
C10_Witness ==
    /\ lane.state = "loaded"
    /\ raw.fft0.shape = <<2, 2, 2, 4>>
    /\ At(lane.data, <<3, 5>>)[0][0].re = At(raw.fft0, <<1, 1, 1, 3>>)[0]

----------------------------------------------------------------------------
(* Claims on the correction stages *)

DedisperseDone == stage_out.state = "done" /\ call.op = "_dedisperse"

RebinDone == stage_out.state = "done" /\ call.op = "_rebin"

\* C2: de-dispersing with a dispersion measure of zero is a no-op: the
\* array that comes out equals the array that went in.
C2_ZeroDmNoOp ==
    (DedisperseDone /\ stage_in.dm = Some(0) /\ stage_out.err = "none")
        => stage_out.data = stage_in.data

\* The configured width of an axis in native samples, None when the axis is
\* not rebinned
ConfiguredWidth(rebin, native) ==
    IF rebin = None THEN None ELSE Some(BinWidth(rebin[1], native))

TimeWidth == ConfiguredWidth(stage_in.rebin_dt, stage_in.dt)

FreqWidth == ConfiguredWidth(stage_in.rebin_df, stage_in.df)

\* The "left over" count logged for an axis
LoggedLeftover(kind) ==
    LET i == CHOOSE i \in 1 .. Len(log) - 1 : log[i][1] = kind
    IN  log[i + 1][2]

\* C4: on an axis of N native samples rebinned with a width of w samples
\* (1 <= w <= N), each output bin is the average of exactly w consecutive
\* input samples and the N mod w samples that remain at the end of the axis
\* are dropped.
C4_BinsOfConfiguredWidth ==
    (RebinDone /\ stage_out.err = "none") =>
        /\ (TimeWidth /= None /\ TimeWidth[1] >= 1
              /\ TimeWidth[1] <= stage_in.data.shape[1]) =>
            LET w == TimeWidth[1]
                N == stage_in.data.shape[1]
            IN  /\ stage_out.data.shape[1] = N \div w
                /\ LoggedLeftover("Time-averaging") = N % w
                /\ \A b \in DOMAIN stage_out.times :
                       stage_out.times[b] =
                           NanMean(Window(stage_in.times, b * w, (b + 1) * w))
        /\ (FreqWidth /= None /\ FreqWidth[1] >= 1
              /\ FreqWidth[1] <= stage_in.data.shape[2]) =>
            LET w == FreqWidth[1]
                N == stage_in.data.shape[2]
            IN  /\ stage_out.data.shape[2] = N \div w
                /\ LoggedLeftover("Frequency-averaging") = N % w
                /\ \A b \in DOMAIN stage_out.freqs :
                       stage_out.freqs[b] =
                           NanMean(Window(stage_in.freqs, b * w, (b + 1) * w))

\* Position of a message in the log, 0 when it is absent
LogIndex(msg) ==
    IF \E i \in 1 .. Len(log) : log[i] = <<msg>>
    THEN CHOOSE i \in 1 .. Len(log) : log[i] = <<msg>>
    ELSE 0

\* C5: after rebinning, the time axis is as long as the data's time
\* dimension and the frequency axis as long as its frequency dimension; a
\* rebinned axis of N samples has floor(N / w) bins and an axis whose width
\* is not configured keeps its N samples; time is rebinned before frequency.
C5_RebinnedAxes ==
    (RebinDone /\ stage_out.err = "none") =>
        /\ Cardinality(DOMAIN stage_out.times) = stage_out.data.shape[1]
        /\ Cardinality(DOMAIN stage_out.freqs) = stage_out.data.shape[2]
        /\ stage_out.data.shape[1] =
               IF TimeWidth = None THEN stage_in.data.shape[1]
               ELSE stage_in.data.shape[1] \div TimeWidth[1]
        /\ stage_out.data.shape[2] =
               IF FreqWidth = None THEN stage_in.data.shape[2]
               ELSE stage_in.data.shape[2] \div FreqWidth[1]
        /\ stage_out.data.shape[3] = stage_in.data.shape[3]
        /\ (TimeWidth /= None /\ FreqWidth /= None) =>
               /\ LogIndex("Data are time-averaged.") > 0
               /\ LogIndex("Data are time-averaged.")
                      < LogIndex("Data are frequency-averaged.")
               \* the frequency bins are means of the time-averaged spectra
               /\ LET t == RebinTime(stage_in.data, stage_in.times, TimeWidth[1])
                  IN  stage_out.data = RebinFreq(t.data, stage_in.freqs, FreqWidth[1]).data

\* Both axes rebinned, with a remainder on the time axis and a flagged
\* sample in the selection
C5_Witness ==
    /\ RebinDone
    /\ stage_out.err = "none"
    /\ TimeWidth = Some(2)
    /\ FreqWidth = Some(2)
    /\ stage_in.data.shape = <<3, 2, 2>>
    /\ IsNaN(stage_in.data.v[<<0, 0, 0>>])
    /\ stage_out.data.shape = <<1, 1, 2>>

----------------------------------------------------------------------------
(* Claims on lane creation and lane loading *)

\* The name ends in an underscore, one digit and ".spectra"
EndsWithLaneSuffix(l) ==
    LET n == Len(l) IN
    /\ n >= 4
    /\ l[n] = "spectra"
    /\ l[n - 1] = "."
    /\ l[n - 2] \in Digits
    /\ l[n - 3] = "_"

\* C11: creating a lane for a path fails, and attaches no lane, with
\* FileNotFoundError when the file does not exist and with ValueError when
\* its name does not end in underscore, one digit, ".spectra"; existence is
\* checked before the name.  Stated on the first path of an assignment.
C11_LaneCreationErrors ==
    [][\A l \in LanefilesInputs :
          ((Construct(l) \/ SetLanefiles(l)) /\ ArgFiles(l) /= <<>>) =>
              LET p == abspath(ArgFiles(l)[1]) IN
              /\ ~isfile(p) => (raised' = "FileNotFoundError" /\ lanes' = lanes)
              /\ (isfile(p) /\ ~EndsWithLaneSuffix(p)) =>
                     (raised' = "ValueError" /\ lanes' = lanes)]_vars

\* Bytes of one block of the file being loaded
RawItemsize == Itemsize(raw.header.nffte, raw.header.fftlen, raw.header.nbchan)

LoadDone == raw.state = "file" /\ lane.state /= "idle"

\* C12: a lane file that holds fewer bytes than one complete block is
\* rejected with an error when the lane is created; no lane with an empty
\* time axis exists.
C12_NoEmptyLane ==
    LoadDone =>
        /\ raw.size < RawItemsize => (lane.state = "failed" /\ lane.err /= "none")
        /\ lane.state = "loaded" => DOMAIN lane.time_unix /= {}

\* A file that holds a header and less than a block, read with a valid
\* header
C12_Witness ==
    /\ LoadDone
    /\ raw.size >= HeaderItemsize
    /\ raw.size < RawItemsize
    /\ raw.header.fftlen % 2 = 0
    /\ lane.state = "failed"
    /\ lane.err = "IndexError"

\* C13: a loaded lane of B = floor(file size / block size) blocks has a
\* frequency axis of nbchan*fftlen entries, a time axis of B*nffte entries
\* and a coherency cube of shape (B*nffte, nbchan*fftlen, 2, 2).
C13_AxesMatchCube ==
    (LoadDone /\ lane.state = "loaded") =>
        LET B == raw.size \div RawItemsize
            n_times == B * raw.header.nffte
            n_freqs == raw.header.nbchan * raw.header.fftlen
        IN  /\ DOMAIN lane.frequency_hz = Range(n_freqs)
            /\ DOMAIN lane.time_unix = Range(n_times)
            /\ lane.data.shape = <<n_times, n_freqs>>
            /\ Len(lane.data.flat) = n_times * n_freqs
            /\ \A k \in DOMAIN lane.data.flat :
                   /\ DOMAIN lane.data.flat[k] = Range(2)
                   /\ \A i \in Range(2) : DOMAIN lane.data.flat[k][i] = Range(2)

\* Two blocks followed by bytes that do not make a third
C13_Witness ==
    /\ LoadDone
    /\ lane.state = "loaded"
    /\ raw.size \div RawItemsize = 2
    /\ raw.size % RawItemsize /= 0
    /\ raw.header.nbchan = 2
    /\ raw.header.nffte = 2

\* C14 as stated: for every valid header (even fftlen >= 2, nfft2int >= 1)
\* the native resolutions satisfy dt * df * fftlen = 1.
C14_ProductIsOne ==
    (LoadDone /\ lane.state = "loaded") =>
        FMul(FMul(lane.dt, lane.df), Num(raw.header.fftlen)) = Num(1)

\* C14: for every valid header (even fftlen >= 2, nfft2int >= 1) the native
\* resolutions dt = 5.12e-6*fftlen*nfft2int and df = 1/(5.12e-6*fftlen)
\* satisfy dt * df = nfft2int, that is dt * df * fftlen = fftlen * nfft2int.
C14_ProductIsIntegration ==
    (LoadDone /\ lane.state = "loaded") =>
        /\ lane.dt = Frac(512 * raw.header.fftlen * raw.header.nfft2int, 100000000)
        /\ FMul(lane.dt, lane.df) = Num(raw.header.nfft2int)
        /\ FMul(FMul(lane.dt, lane.df), Num(raw.header.fftlen))
               = Num(raw.header.fftlen * raw.header.nfft2int)

\* Four channels integrated over two spectra
C14_Witness ==
    /\ LoadDone
    /\ lane.state = "loaded"
    /\ raw.header.fftlen = 4
    /\ raw.header.nfft2int = 2
    /\ FMul(lane.dt, lane.df) = Num(2)

\* C15: for every beam id b of the first block the map entry (start, stop)
\* covers exactly the subbands whose beam id is b, so the ranges of two
\* distinct beams never overlap, for any arrangement of beam ids over the
\* subbands.
C15_BeamRangesExact ==
    lane.state = "beams" =>
        LET n == raw.n_channels
            Covered(b) == {sb \in DOMAIN raw.beam :
                              lane.beam_idx[b][1] <= sb * n /\ sb * n < lane.beam_idx[b][2]}
        IN  /\ \A b \in DOMAIN lane.beam_idx :
                   Covered(b) = {sb \in DOMAIN raw.beam : raw.beam[sb] = b}
            /\ \A b1, b2 \in DOMAIN lane.beam_idx :
                   b1 /= b2 => Covered(b1) \cap Covered(b2) = {}

----------------------------------------------------------------------------
(* Claims on the selection attributes *)

\* C16: after any sequence of integer assignments to beam the selected beam
\* is one of the beam ids of the attached lanes; an id that is absent is
\* replaced by the smallest available id with a warning, and no exception
\* is raised.
C16_BeamAvailable ==
    phase = "ready" =>
        /\ config.beam /= None
        /\ config.beam[1] \in Beams(lanes)
        /\ (call.op = "beam" /\ call.arg.isint) =>
               /\ raised = "none"
               /\ IF call.arg.v \in Beams(lanes)
                  THEN config.beam = Some(call.arg.v) /\ log = <<>>
                  ELSE /\ config.beam = Some(MinOfSet(Beams(lanes)))
                       /\ log = <<"warning">>

\* Beam 4 asked of an Observation whose lanes hold the beams 2 and 3
C16_Witness ==
    /\ phase = "ready"
    /\ call.op = "beam"
    /\ call.arg = [isint |-> TRUE, v |-> 4]
    /\ Beams(lanes) = {2, 3}
    /\ config.beam = Some(2)
    /\ log = <<"warning">>

----------------------------------------------------------------------------
(* Claims on Dynspec.get *)

GetDone == call.op = "get"

\* The lanes get skips: those without the selected beam and those whose
\* nearest frequency indices coincide
SkippedLanes == {i \in DOMAIN lanes : LaneSelection(lanes[i], lanes, config).skipped}

KnownRequest == \A k \in DOMAIN call.arg : Upper(call.arg[k]) \in StokesLetters

\* C17: when every attached lane is skipped, get ends with an error and
\* returns nothing; a lane without the selected beam is skipped without an
\* error of its own as long as another lane contributes.
C17_NoEmptyResult ==
    GetDone =>
        /\ SkippedLanes = DOMAIN lanes => (raised /= "none" /\ stage_out.spec = <<>>)
        /\ raised = "none" => stage_out.spec /= <<>>
        /\ (SkippedLanes /= DOMAIN lanes /\ KnownRequest) =>
               /\ raised = "none"
               /\ {stage_out.spec[k].lane : k \in DOMAIN stage_out.spec}
                      = DOMAIN lanes \ SkippedLanes

\* Two lanes, the first without the selected beam and the second with
\* coinciding frequency indices
C17_Witness ==
    /\ GetDone
    /\ Len(lanes) = 2
    /\ config.beam[1] \notin DOMAIN lanes[1].beam_idx
    /\ config.beam[1] \in DOMAIN lanes[2].beam_idx
    /\ SkippedLanes = {1, 2}
    /\ raised = "UnboundLocalError"

\* C18: for every lane get does not skip, the frequency slice [start, stop)
\* is a non-empty whole number of subbands inside the beam's range: start
\* and stop are multiples of n_channels, start <= the nearest index to fmin,
\* stop > the nearest index to fmax and stop <= beam_stop - beam_start, for
\* any order of the subband channel ids in the file.
C18_WholeSubbandsSelected ==
    (GetDone /\ raised = "none") =>
        \A k \in DOMAIN stage_out.spec :
            LET e == stage_out.spec[k]
                n == lanes[e.lane].n_channels
            IN  /\ e.fmin_idx % n = 0
                /\ e.fmax_idx % n = 0
                /\ e.fmin_idx <= e.fmin_near
                /\ e.fmax_idx > e.fmax_near
                /\ e.fmax_idx <= e.beam_stop - e.beam_start
                /\ e.fmin_idx < e.fmax_idx
                /\ Cardinality(DOMAIN e.selfreqs) = e.fmax_idx - e.fmin_idx

\* The stages of get, in the order of the pipeline
StageOrder ==
    <<"_bp_correct", "_remove_edge_channels", "_clean", "_correct_jumps",
      "_dedisperse", "_rebin">>

\* The stage calls made for lane i, in the order they were made
StageCalls(i) ==
    LET calls == SelectSeq(log, LAMBDA e : e[1] = "call" /\ e[2] = i)
    IN  [k \in DOMAIN calls |-> calls[k][3]]

\* C19: within one get call each contributing lane goes through bandpass
\* correction, edge-channel flagging, RFI hook, gain-jump correction,
\* dedispersion and rebinning in this order, each once, and all of them are
\* over before the lane is concatenated to the result.
C19_StageOrder ==
    (GetDone /\ raised = "none") =>
        \A k \in DOMAIN stage_out.spec :
            LET i == stage_out.spec[k].lane
                mine == {n \in DOMAIN log : log[n][2] = i}
                joined == {n \in DOMAIN log : log[n] = <<"concatenate", i>>}
            IN  /\ StageCalls(i) = StageOrder
                /\ Cardinality(joined) = 1
                /\ \A n \in mine, c \in joined : n <= c
                \* the lanes are processed one after the other
                /\ \A n \in DOMAIN log : \A m \in mine, c \in joined :
                       (m <= n /\ n <= c) => log[n][2] = i

\* Two lanes contribute, with the gain-jump correction and the
\* dedispersion enabled
C19_Witness ==
    /\ GetDone
    /\ raised = "none"
    /\ Len(stage_out.spec) = 2
    /\ config.jump_correction = Some(TRUE)
    /\ config.dispersion_measure /= None
    /\ StageCalls(2) = StageOrder

\* C20: during get the selected data are evaluated at two points only: at
\* the start of dedispersion when a dispersion measure is set, and once at
\* the end of each lane's pipeline; bandpass correction, edge flagging,
\* gain-jump correction and rebinning do not evaluate them.
C20_TwoEvaluationPoints ==
    (GetDone /\ raised = "none") =>
        \A k \in DOMAIN stage_out.spec :
            LET i == stage_out.spec[k].lane
                evals == SelectSeq(log, LAMBDA e : e[1] = "compute" /\ e[2] = i)
            IN  evals = (IF config.dispersion_measure /= None
                         THEN << <<"compute", i, "_dedisperse">> >> ELSE <<>>)
                            \o << <<"compute", i, "get">> >>

----------------------------------------------------------------------------
(* Claims on the lanes a Dynspec object holds *)

\* The integer d of a file name '<prefix>_<d>.spectra'
IndexOfName(l) == DigitValue(PatternFindall(l)[1])

\* C28: a lane constructed from a file named '<prefix>_<d>.spectra' has
\* lane_index equal to the integer d of the name, for as long as it lives.
C28_LaneIndexFromName ==
    \A i \in DOMAIN lanes :
        lanes[i].lane_index = Some(IndexOfName(lanes[i].lanefile))

\* C25: after any sequence of assignments to lanefiles, failed ones
\* included, lanes holds exactly one lane per file of the current lanefiles
\* list, in the same order.
C25_LanesMatchLanefiles ==
    phase = "ready" =>
        /\ lanefiles /= None
        /\ Len(lanes) = Len(lanefiles[1])
        /\ \A i \in DOMAIN lanes : lanes[i].lanefile = lanefiles[1][i]

----------------------------------------------------------------------------
(* Claims on the selection and configuration attributes *)

\* The assignments the setters are to refuse
RefusedTimeRange(t) ==
    \/ ~t.islist
    \/ Len(t.v) /= 2
    \/ /\ \A k \in 1 .. 2 : ToTime(t.v[k]).ok
       /\ FGreaterEqual(ToTime(t.v[1]).unix, ToTime(t.v[2]).unix)

RefusedFreqRange(f) ==
    \/ ~f.islist
    \/ Len(f.v) /= 2
    \/ /\ \A k \in 1 .. 2 : f.v[k].kind = f.v[1].kind
       /\ LET hz(k) == IF f.v[k].kind = "float"
                       THEN FMul(f.v[k].value, Num(1000000))
                       ELSE ToHz(f.v[k])
          IN  FGreaterEqual(hz(1), hz(2))

RefusedAssignment(c) ==
    CASE c.op = "time_range" -> RefusedTimeRange(c.arg)
      [] c.op = "freq_range" -> RefusedFreqRange(c.arg)
      [] c.op = "bp_correction" -> ~c.arg.isstr \/ Lower(c.arg.v) \notin BpModes
      [] c.op = "jump_correction" -> ~c.arg.isbool
      [] c.op = "beam" -> ~c.arg.isint
      [] OTHER -> FALSE

\* The ranges and the mode the attributes give are well formed
ConfigWellFormed ==
    /\ FLessThan(TimeRange(lanes, config)[1], TimeRange(lanes, config)[2])
    /\ FLessThan(FreqRange(lanes, config)[1], FreqRange(lanes, config)[2])
    /\ config.bp_correction[1] \in BpModes

\* C24: every refused assignment to time_range, freq_range, bp_correction,
\* jump_correction or beam raises and leaves the stored values as they
\* were; after any sequence of assignments time_range[0] < time_range[1],
\* freq_range[0] < freq_range[1] and bp_correction is one of the four
\* lower-case modes.
C24_RefusedAssignmentsKeepConfig ==
    /\ [][RefusedAssignment(call') => (raised' /= "none" /\ config' = config)]_vars
    /\ [][raised' /= "none" => config' = config]_vars
    /\ []ConfigWellFormed

----------------------------------------------------------------------------
(* Claims on dedispersion and edge flagging *)

\* The delay of channel i of the selection in time samples, relative to
\* the upper end of the frequency range
CellDelay(i) ==
    RoundHalfEven(FDivInt(FSub(DispersionDelay(stage_in.freqs[i], stage_in.dm[1]),
                               DispersionDelay(stage_in.fref, stage_in.dm[1])),
                          stage_in.dt))

\* Channel i of the output is channel i of the input moved d samples
\* earlier, with NaN in exactly its last d samples
ShiftedBy(i, d) ==
    LET T == stage_in.data.shape[1]
        P == stage_in.data.shape[3]
    IN  \A t \in Range(T), p \in Range(P) :
            stage_out.data.v[<<t, i, p>>] =
                IF t < T - d THEN stage_in.data.v[<<t + d, i, p>>] ELSE NaN

\* C22: with a dispersion measure set, a channel of integer cell delay d
\* (0 <= d <= T) comes out as out[t] = in[t + d] for t < T - d and NaN in
\* exactly the last d samples, the shape of the array unchanged; a channel
\* of delay 0 is unchanged.
C22_ShiftAndMask ==
    (DedisperseDone /\ stage_in.dm /= None /\ stage_out.err = "none") =>
        /\ stage_out.data.shape = stage_in.data.shape
        /\ \A i \in Range(stage_in.data.shape[2]) :
               (0 <= CellDelay(i) /\ CellDelay(i) <= stage_in.data.shape[1])
                   => ShiftedBy(i, CellDelay(i))

EdgeDone == stage_out.state = "done" /\ call.op = "_remove_edge_channels"

\* Channel f of a lane of C channels per subband is one of the first n or
\* of the last n channels of its subband
AtSubbandEdge(f, n, C) == f % C < n \/ f % C >= C - n

\* C23: with a crop count n > 0, edge flagging sets to NaN exactly the
\* first n and the last n channels of every subband, for every time sample
\* and polarization, leaves every other value as it was and keeps the shape
\* of the array; with n = 0 the array that comes out is the one that went in.
C23_EdgesFlagged ==
    EdgeDone =>
        /\ stage_out.err = "none"
        /\ stage_out.data.shape = stage_in.data.shape
        /\ stage_in.n = 0 => stage_out.data = stage_in.data
        /\ stage_in.n > 0 =>
               \A i \in DOMAIN stage_in.data.v :
                   stage_out.data.v[i] =
                       IF AtSubbandEdge(i[2], stage_in.n, stage_in.n_channels)
                       THEN NaN ELSE stage_in.data.v[i]

----------------------------------------------------------------------------
(* Claims on the data get returns *)

\* The first index of a 1-d axis at minimal distance of a target
FirstNearest(axis, target) ==
    LET dist(i) == FAbs(FSub(axis[i], target))
        nearest == {i \in DOMAIN axis : \A j \in DOMAIN axis : ~FLess(dist(j), dist(i))}
    IN  CHOOSE i \in nearest : \A j \in nearest : i <= j

NoRebinning == config.rebin_dt = None /\ config.rebin_df = None

\* The Stokes planes of a lane, computed from its data as documented
PlaneOf(li, t, f, p) == Num(At(GetStokes(li.data, call.arg).data[1], <<t, f>>)[p])

\* C29: with i0 and i1 the first indices of minimal distance of the lane's
\* time axis to the selected tmin and tmax, the data and the time axis get
\* returns for the lane hold exactly the samples i0 <= i < i1, both of
\* length i1 - i0; the default range on a lane of N time samples returns
\* N - 1 samples and never the last one.
C29_TimeSliceExcludesLast ==
    (GetDone /\ raised = "none" /\ NoRebinning) =>
        \A k \in DOMAIN stage_out.spec :
            LET e  == stage_out.spec[k]
                li == lanes[e.lane]
                N  == Cardinality(DOMAIN li.time_unix)
                i0 == FirstNearest(li.time_unix, TimeRange(lanes, config)[1])
                i1 == FirstNearest(li.time_unix, TimeRange(lanes, config)[2])
            IN  /\ i0 <= i1
                /\ e.shape[1] = i1 - i0
                /\ e.time = [t \in Range(i1 - i0) |-> li.time_unix[i0 + t]]
                /\ e.data /= None =>
                       \A t \in Range(i1 - i0), f \in Range(e.shape[2]), p \in Range(e.shape[3]) :
                           ~IsNaN(e.data[1].v[<<t, f, p>>]) =>
                               e.data[1].v[<<t, f, p>>] =
                                   PlaneOf(li, i0 + t, e.beam_start + e.fmin_idx + f, p)
                /\ config.time_range = None =>
                       (e.shape[1] = N - 1 /\ \A t \in DOMAIN e.time : e.time[t] /= LastOf(li.time_unix))

\* A range that starts between two samples and the default range, on
\* lanes of three samples
C29_Witness ==
    /\ GetDone
    /\ raised = "none"
    /\ config.time_range /= None
    /\ \E k \in DOMAIN stage_out.spec :
           /\ stage_out.spec[k].tmin_idx = 1
           /\ stage_out.spec[k].shape[1] = 1
           /\ stage_out.spec[k].data /= None

\* result = spec & sd for each contributing lane (nenupy.beamlet.sdata): the
\* frequency axes of the lanes side by side, in the order of the entries
RECURSIVE StackInFrequency(_)
StackInFrequency(spec) ==
    IF spec = <<>> THEN <<>>
    ELSE [k \in 1 .. Cardinality(DOMAIN spec[1].freq) |-> spec[1].freq[k - 1]]
             \o StackInFrequency(Tail(spec))

\* The frequency axis of lane li for the selected beam
BeamAxis(li) ==
    SliceAxis(li.frequency_hz, li.beam_idx[config.beam[1]][1], li.beam_idx[config.beam[1]][2])

RECURSIVE BeamAxesFrom(_)
BeamAxesFrom(i) ==
    IF i > Len(lanes) THEN <<>>
    ELSE (IF i \in SkippedLanes THEN <<>>
          ELSE [k \in 1 .. Cardinality(DOMAIN BeamAxis(lanes[i])) |-> BeamAxis(lanes[i])[k - 1]])
             \o BeamAxesFrom(i + 1)

\* C21: with bandpass 'none', no jump correction, no dedispersion, no
\* rebinning and the full time and frequency range selected, the frequency
\* dimension of the result of get is the sum of the lengths of the
\* frequency axes of the contributing lanes, whose blocks come in the order
\* in which the lanes were attached.
C21_FrequencyAxesConcatenated ==
    (/\ GetDone
     /\ raised = "none"
     /\ config.bp_correction = Some("none")
     /\ config.jump_correction = Some(FALSE)
     /\ config.dispersion_measure = None
     /\ NoRebinning
     /\ config.time_range = None
     /\ config.freq_range = None) =>
        /\ Len(StackInFrequency(stage_out.spec)) = Len(BeamAxesFrom(1))
        /\ StackInFrequency(stage_out.spec) = BeamAxesFrom(1)
        /\ \A k \in DOMAIN stage_out.spec :
               stage_out.spec[k].shape[2] = Cardinality(DOMAIN stage_out.spec[k].freq)
        /\ \A j, k \in DOMAIN stage_out.spec :
               j < k => stage_out.spec[j].lane < stage_out.spec[k].lane

----------------------------------------------------------------------------
(* Claims on the gain-jump correction *)

JumpsDone == stage_out.state = "done" /\ call.op = "_correct_jumps"

\* C26: in the gain-jump correction every time sample of a polarization is
\* divided by the fitted curve of exactly one interval, the samples at the
\* interior boundaries included; with the correction disabled the data come
\* back unchanged.
C26_OneFitPerSample ==
    JumpsDone =>
        /\ ~stage_in.enabled => stage_out.data = stage_in.data
        /\ (stage_in.enabled /\ stage_out.err = "none") =>
               \A i \in DOMAIN stage_out.data.v :
                   /\ stage_out.data.v[i].value = stage_in.data.v[i]
                   /\ Len(stage_out.data.v[i].fits) = 1

\* round(360 / dt) for dt = <<n, d>>
RoundedCadence(dt) == RoundHalfEven(Frac(sixMin * dt[2], dt[1]))

\* The index of the minimal discrete derivative of the clipped time profile
\* of polarization p
JumpIndexOf(p) == ArgMin(Gradient(ClipProfile(TimeProfile(stage_in.data, p))))

IntervalCount == CeilDiv(stage_in.data.shape[1] * stage_in.dt[1], sixMin * stage_in.dt[2])

InOrderWithin(edges, N) ==
    /\ \A k \in DOMAIN edges : 0 <= edges[k] /\ edges[k] <= N - 1
    /\ \A k \in 1 .. Len(edges) - 1 : edges[k] <= edges[k + 1]

\* C27 as stated: the boundaries are 0 and N - 1 plus ceil(N*dt/360) - 1
\* interior boundaries at j0 + k*round(360/dt), k = 0, 1, ..., j0 being the
\* index of the minimal discrete derivative of the clipped time profile;
\* the list is non-decreasing and lies in [0, N - 1].
C27_BoundariesFromJumpIndex ==
    (JumpsDone /\ stage_in.enabled) =>
        \A p \in DOMAIN stage_out.edges :
            LET edges == stage_out.edges[p]
                N == stage_in.data.shape[1]
            IN  /\ Len(edges) = IntervalCount + 1
                /\ edges[1] = 0
                /\ edges[Len(edges)] = N - 1
                /\ \A k \in 2 .. Len(edges) - 1 :
                       edges[k] = JumpIndexOf(p) + (k - 2) * RoundedCadence(stage_in.dt)
                /\ InOrderWithin(edges, N)

\* C27: the boundaries are 0 and N - 1 plus ceil(N*dt/360) - 1 interior
\* boundaries at (j0 mod c) + k*c, k = 0, 1, ..., with c = floor(360/dt) and
\* j0 the index of the minimal discrete derivative of the clipped time
\* profile; the list is non-decreasing and lies in [0, N - 1].
C27_BoundariesFromFirstJump ==
    (JumpsDone /\ stage_in.enabled) =>
        \A p \in DOMAIN stage_out.edges :
            LET edges == stage_out.edges[p]
                N == stage_in.data.shape[1]
                c == FloorDiv(sixMin * stage_in.dt[2], stage_in.dt[1])
            IN  /\ Len(edges) = IntervalCount + 1
                /\ edges[1] = 0
                /\ edges[Len(edges)] = N - 1
                /\ \A k \in 2 .. Len(edges) - 1 :
                       edges[k] = (JumpIndexOf(p) % c) + (k - 2) * c
                /\ InOrderWithin(edges, N)

\* Three interior boundaries, the jump found beyond the first cadence and a
\* cadence that is not a whole number of samples
C27_Witness ==
    /\ JumpsDone
    /\ stage_in.enabled
    /\ stage_out.err = "none"
    /\ stage_in.dt = Num(128)
    /\ Len(stage_out.edges[0]) = 4
    /\ JumpIndexOf(0) >= 2

====
